---- MODULE Spec2Model ----
(***************************************************************************)
(* SubTracker: the Subscription entity, the renewal-date calculator        *)
(* (src/utils/date_utils.py) and the SubscriptionService CRUD operations   *)
(* (src/services/subscription_service.py).                                 *)
(*                                                                         *)
(* A calendar date is the integer year*10000 + month*100 + day, so that    *)
(* the order of dates is the order of the integers; Python's None in a     *)
(* date field is NoDate.                                                   *)
(***************************************************************************)
EXTENDS Integers, Sequences, FiniteSets, TLC

VARIABLES subscriptions, persisted, today, last, calc, config

vars == <<subscriptions, persisted, today, last, calc, config>>

(***************************************************************************)
(* Bounds of the model.                                                    *)
(***************************************************************************)
\* Largest number of entries of an update_subscription field map.
MaxUpdateFields == 2

\* A service restart (load) is explored only while every stored renewal
\* date stays within this year: each load may push a date one cycle on.
MaxYear == 2025

(***************************************************************************)
(* datetime.date and dateutil.relativedelta arithmetic.                    *)
(***************************************************************************)
NoDate == 0

MkDate(y, m, d) == y * 10000 + m * 100 + d

Year(dt) == dt \div 10000

Month(dt) == (dt \div 100) % 100

Day(dt) == dt % 100

IsLeap(y) == (y % 4 = 0 /\ y % 100 # 0) \/ y % 400 = 0

DaysInMonth(y, m) ==
    IF m = 2 THEN (IF IsLeap(y) THEN 29 ELSE 28)
    ELSE IF m \in {4, 6, 9, 11} THEN 30 ELSE 31

Min(a, b) == IF a <= b THEN a ELSE b

\* relativedelta as it would be if the last day of a month stepped to the
\* last day of the target month.
AddMonthsEndOfMonth(dt, n) ==
    LET total == (Month(dt) - 1) + n
        y == Year(dt) + total \div 12
        m == (total % 12) + 1
    IN  IF Day(dt) = DaysInMonth(Year(dt), Month(dt))
        THEN MkDate(y, m, DaysInMonth(y, m))
        ELSE MkDate(y, m, Min(Day(dt), DaysInMonth(y, m)))

\* date + relativedelta(months=n): the day is clamped to the target month.
AddMonths(dt, n) ==
    LET total == (Month(dt) - 1) + n
        y == Year(dt) + total \div 12
        m == (total % 12) + 1
    IN  MkDate(y, m, Min(Day(dt), DaysInMonth(y, m)))

\* date + relativedelta(years=n): Feb 29 clamps to Feb 28 in a common year.
AddYears(dt, n) ==
    LET y == Year(dt) + n
    IN  MkDate(y, Month(dt), Min(Day(dt), DaysInMonth(y, Month(dt))))

\* date + timedelta(weeks=1): seven days on, rolling over month and year.
AddWeek(dt) ==
    LET dim == DaysInMonth(Year(dt), Month(dt))
        d == Day(dt) + 7
    IN  IF d <= dim THEN MkDate(Year(dt), Month(dt), d)
        ELSE IF Month(dt) = 12 THEN MkDate(Year(dt) + 1, 1, d - dim)
        ELSE MkDate(Year(dt), Month(dt) + 1, d - dim)

(***************************************************************************)
(* Python floats.  A cost is an integer amount, or NaN, the float that     *)
(* float("nan") returns; every comparison with NaN is False, as in Python, *)
(* except !=, which is True.                                               *)
(***************************************************************************)
NaN == 1000000

FloatLt(a, b) == a # NaN /\ b # NaN /\ a < b

FloatGe(a, b) == a # NaN /\ b # NaN /\ a >= b

FloatNe(a, b) == a = NaN \/ b = NaN \/ a # b

(***************************************************************************)
(* The enumerations, by their values.                                      *)
(***************************************************************************)
BillingCycle == {"monthly", "yearly", "quarterly", "bi-annually", "weekly", "other"}

SubscriptionStatus == {"active", "inactive", "cancelled", "trial"}

(***************************************************************************)
(* calculate_next_renewal_date.  The result is [err, date]: err is the     *)
(* ValueError raised for the cycle OTHER.                                  *)
(***************************************************************************)
\* One application of the cycle's delta (the if/elif chain of both blocks).
AddDelta(dt, cycle) ==
    CASE cycle = "weekly" -> AddWeek(dt)
      [] cycle = "monthly" -> AddMonths(dt, 1)
      [] cycle = "quarterly" -> AddMonths(dt, 3)
      [] cycle = "yearly" -> AddYears(dt, 1)
      [] cycle = "bi-annually" -> AddYears(dt, 2)

\* base_date: the start date, or the last renewal when given and later.
BaseDateIgnoringStart(start_date, last_renewal) ==
    IF last_renewal # NoDate THEN last_renewal ELSE start_date

BaseDate(start_date, last_renewal) ==
    IF last_renewal # NoDate /\ last_renewal > start_date
    THEN last_renewal ELSE start_date

\* while next_date < today: next_date += delta
RECURSIVE AdvanceWhilePast(_, _, _)
AdvanceWhilePastOffByOne(next_date, cycle, now) ==
    IF AddDelta(next_date, cycle) < now
    THEN AdvanceWhilePast(AddDelta(next_date, cycle), cycle, now)
    ELSE next_date

AdvanceWhilePast(next_date, cycle, now) ==
    IF next_date < now
    THEN AdvanceWhilePast(AddDelta(next_date, cycle), cycle, now)
    ELSE next_date

calculate_next_renewal_date(start_date, cycle, last_renewal, now) ==
    IF cycle = "other"
    THEN [err |-> TRUE, date |-> NoDate]
    ELSE [err |-> FALSE,
          date |-> AdvanceWhilePast(
                     AddDelta(BaseDate(start_date, last_renewal), cycle),
                     cycle, now)]

(***************************************************************************)
(* The Subscription entity (models/subscription.py).  The fields that the  *)
(* consistency and renewal rules read or write are modelled; the free-text *)
(* metadata is not.                                                        *)
(***************************************************************************)
Attributes ==
    {"id", "name", "cost", "billing_cycle", "start_date", "status",
     "next_renewal_date", "trial_end_date", "category"}

\* The declared type of each dataclass field.
FieldType(key) ==
    CASE key \in {"id", "name", "category"} -> "str"
      [] key = "cost" -> "float"
      [] key = "billing_cycle" -> "BillingCycle"
      [] key = "status" -> "SubscriptionStatus"
      [] key = "start_date" -> "date"
      [] key \in {"next_renewal_date", "trial_end_date"} -> "Optional[date]"

\* __post_init__ raises ValueError for an empty name or a negative cost.
PostInitRaises(s) == s.name = "" \/ FloatLt(s.cost, 0)

\* __post_init__'s consistency between trial_end_date and status.
__post_init__(s) ==
    IF s.trial_end_date # NoDate /\ s.status # "trial"
    THEN [s EXCEPT !.status = "trial"]
    ELSE IF s.trial_end_date = NoDate /\ s.status = "trial"
    THEN [s EXCEPT !.status = "active"]
    ELSE s

(***************************************************************************)
(* Persistence: SubscriptionEncoder writes dates as ISO strings, modelled  *)
(* as the triple <<year, month, day>> of the string's fields, None as the  *)
(* empty tuple (JSON null), and enums as their values.                     *)
(***************************************************************************)
isoformat(dt) == <<Year(dt), Month(dt), Day(dt)>>

\* Whether date.fromisoformat accepts the string (else ValueError).
IsIsoDate(iso) ==
    /\ Len(iso) = 3
    /\ iso[1] \in 1..9999
    /\ iso[2] \in 1..12
    /\ iso[3] \in 1..DaysInMonth(iso[1], iso[2])

fromisoformat(iso) == MkDate(iso[1], iso[2], iso[3])

_encode_subscription(s) ==
    [id |-> s.id, name |-> s.name, cost |-> s.cost, category |-> s.category,
     billing_cycle |-> s.billing_cycle, status |-> s.status,
     start_date |-> isoformat(s.start_date),
     next_renewal_date |->
         IF s.next_renewal_date # NoDate
         THEN isoformat(s.next_renewal_date) ELSE <<>>,
     trial_end_date |->
         IF s.trial_end_date # NoDate
         THEN isoformat(s.trial_end_date) ELSE <<>>]

DateKeys == {"start_date", "next_renewal_date", "trial_end_date"}

\* The object hook, on a JSON object with any set of keys.  An invalid enum
\* value read from the file falls back to OTHER / INACTIVE; a date string is
\* parsed; a JSON null date stays None.
subscription_decoder(r) ==
    [k \in DOMAIN r |->
        CASE k = "billing_cycle" ->
               IF r[k] \in BillingCycle THEN r[k] ELSE "other"
          [] k = "status" ->
               IF r[k] \in SubscriptionStatus THEN r[k] ELSE "inactive"
          [] k \in DateKeys ->
               IF r[k] # <<>> THEN fromisoformat(r[k]) ELSE NoDate
          [] OTHER -> r[k]]

\* date.fromisoformat raises ValueError inside the object hook: nothing in
\* subscription_decoder catches it.
DecoderRaises(r) ==
    \E k \in DOMAIN r \cap DateKeys : r[k] # <<>> /\ ~IsIsoDate(r[k])

\* Subscription(**sub_dict): the dataclass __init__ raises TypeError for a
\* missing required argument or an unknown keyword, and fills the defaults.
RequiredFields == {"name", "cost", "billing_cycle", "start_date"}

SubscriptionInitRaises(d) ==
    ~(RequiredFields \subseteq DOMAIN d) \/ ~(DOMAIN d \subseteq Attributes)

FieldDefault(k) ==
    CASE k = "status" -> "active"
      [] k = "id" -> "uuid4"
      [] k \in {"next_renewal_date", "trial_end_date"} -> NoDate
      [] k = "category" -> "Uncategorized"

Subscription(d) ==
    [k \in Attributes |-> IF k \in DOMAIN d THEN d[k] ELSE FieldDefault(k)]

\* The data file: whether it exists, whether its text is a JSON list or is
\* not JSON at all, and the records of the list, keyed here by the records'
\* ids (the service writes one record per key of its dict).
NoFile == [exists |-> FALSE, text |-> "", records |-> [i \in {} |-> 0]]

_save_subscriptions(subs) ==
    [exists |-> TRUE, text |-> "list",
     records |-> [i \in DOMAIN subs |-> _encode_subscription(subs[i])]]

(***************************************************************************)
(* Loading (_load_subscriptions, _recalculate_all_renewal_dates).          *)
(***************************************************************************)
\* One iteration of _recalculate_all_renewal_dates' loop.  A calculator
\* error leaves None; the cycle OTHER is skipped before the call.
RecalculateOnLoad(sub, now) ==
    IF sub.status = "trial"
    THEN [sub EXCEPT !.next_renewal_date = NoDate]
    ELSE IF sub.billing_cycle = "other"
    THEN sub
    ELSE LET r == calculate_next_renewal_date(sub.start_date, sub.billing_cycle,
                                              sub.next_renewal_date, now)
         IN  [sub EXCEPT !.next_renewal_date =
                  IF r.err THEN NoDate ELSE r.date]

\* json.load raises the decoder's ValueError, which is neither a
\* JSONDecodeError nor a FileNotFoundError: it leaves _load_subscriptions
\* and the constructor of the service.
LoadRaises(file) ==
    /\ file.exists
    /\ file.text = "list"
    /\ \E i \in DOMAIN file.records : DecoderRaises(file.records[i])

\* The records of the file that Subscription(**sub_dict) accepts: the others
\* raise TypeError or ValueError, which the loop catches.
LoadableIds(file) ==
    {i \in DOMAIN file.records :
        /\ ~SubscriptionInitRaises(subscription_decoder(file.records[i]))
        /\ ~PostInitRaises(Subscription(subscription_decoder(file.records[i])))}

\* The dict built by the loop over the file's records, before recalculation:
\* self._subscriptions[subscription.id] = subscription.
LoadedBeforeRecalc(file) ==
    LET subs == {__post_init__(Subscription(subscription_decoder(file.records[i]))) :
                    i \in LoadableIds(file)}
    IN  [k \in {sub.id : sub \in subs} |-> CHOOSE sub \in subs : sub.id = k]

\* The service's dict after _load_subscriptions.
_load_subscriptions(file, now) ==
    IF ~file.exists \/ file.text # "list" \/ LoadRaises(file)
    THEN [i \in {} |-> 0]
    ELSE [k \in DOMAIN LoadedBeforeRecalc(file) |->
             RecalculateOnLoad(LoadedBeforeRecalc(file)[k], now)]

\* The file after _load_subscriptions: rewritten only if a date was changed.
FileAfterLoadNeverSaved(file, now) == file

FileAfterLoad(file, now) ==
    IF /\ file.exists
       /\ file.text = "list"
       /\ ~LoadRaises(file)
       /\ _load_subscriptions(file, now) # LoadedBeforeRecalc(file)
    THEN _save_subscriptions(_load_subscriptions(file, now))
    ELSE file

(***************************************************************************)
(* add_subscription.                                                       *)
(***************************************************************************)
\* The renewal date add_subscription assigns to the object.
RenewalOnAddKeepingCallers(sub, now) ==
    IF sub.status # "trial" /\ sub.billing_cycle # "other"
       /\ sub.next_renewal_date = NoDate
    THEN calculate_next_renewal_date(sub.start_date, sub.billing_cycle,
                                     NoDate, now).date
    ELSE IF sub.status # "trial" /\ sub.billing_cycle # "other"
    THEN sub.next_renewal_date
    ELSE NoDate

RenewalOnAdd(sub, now) ==
    IF sub.status # "trial"
    THEN IF sub.billing_cycle = "other"
         THEN NoDate
         ELSE LET r == calculate_next_renewal_date(sub.start_date,
                                                   sub.billing_cycle, NoDate, now)
              IN  IF r.err THEN NoDate ELSE r.date
    ELSE NoDate

(***************************************************************************)
(* update_subscription and its helpers.  A value of the caller's field map *)
(* is [t, d, iso, s]: its Python type t, and its payload (d: a date or a   *)
(* number; iso: the fields of a date-shaped string; s: the text of a       *)
(* string or the value of an enum member).                                 *)
(***************************************************************************)
PyNone == [t |-> "NoneType", d |-> 0, iso |-> <<>>, s |-> ""]

PyDate(dt) == [t |-> "date", d |-> dt, iso |-> <<>>, s |-> ""]

PyFloat(n) == [t |-> "float", d |-> n, iso |-> <<>>, s |-> ""]

PyEnum(cls, v) == [t |-> cls, d |-> 0, iso |-> <<>>, s |-> v]

PyStr(text) == [t |-> "str", d |-> 0, iso |-> <<>>, s |-> text]

\* A string of the form YYYY-MM-DD with the given fields.
PyIsoStr(y, m, d) == [t |-> "str", d |-> 0, iso |-> <<y, m, d>>, s |-> ""]

\* float(text) for the strings the model passes: [ok, val], ok = FALSE when
\* float() raises ValueError.
ParseFloat(text) ==
    CASE text = "20" -> [ok |-> TRUE, val |-> 20]
      [] text = "-5" -> [ok |-> TRUE, val |-> 0 - 5]
      [] text = "nan" -> [ok |-> TRUE, val |-> NaN]
      [] OTHER -> [ok |-> FALSE, val |-> 0]

EnumValues(cls) ==
    IF cls = "BillingCycle" THEN BillingCycle ELSE SubscriptionStatus

IsOptional(key) == FieldType(key) = "Optional[date]"

\* The try block of _validate_and_prepare_updates: [ok, val], ok = FALSE
\* when the conversion raises ValueError/TypeError or the cost is negative.
CoerceWithoutSignCheck(key, v) ==
    LET ty == FieldType(key)
    IN  CASE ty \in {"date", "Optional[date]"} ->
               IF v.t = "date" THEN [ok |-> TRUE, val |-> v.d]
               ELSE IF v.t = "str" /\ IsIsoDate(v.iso)
               THEN [ok |-> TRUE, val |-> fromisoformat(v.iso)]
               ELSE [ok |-> FALSE, val |-> NoDate]
          [] ty \in {"BillingCycle", "SubscriptionStatus"} ->
               IF v.t = ty \/ (v.t = "str" /\ v.s \in EnumValues(ty))
               THEN [ok |-> TRUE, val |-> v.s]
               ELSE [ok |-> FALSE, val |-> ""]
          [] ty = "float" ->
               IF v.t \in {"float", "int"}
               THEN [ok |-> TRUE, val |-> v.d]
               ELSE IF v.t = "str"
               THEN [ok |-> ParseFloat(v.s).ok, val |-> ParseFloat(v.s).val]
               ELSE [ok |-> FALSE, val |-> 0]
          [] ty = "str" ->
               [ok |-> TRUE, val |-> v.s]

Coerce(key, v) ==
    LET ty == FieldType(key)
    IN  CASE ty \in {"date", "Optional[date]"} ->
               IF v.t = "date" THEN [ok |-> TRUE, val |-> v.d]
               ELSE IF v.t = "str" /\ IsIsoDate(v.iso)
               THEN [ok |-> TRUE, val |-> fromisoformat(v.iso)]
               ELSE [ok |-> FALSE, val |-> NoDate]
          [] ty \in {"BillingCycle", "SubscriptionStatus"} ->
               IF v.t = ty \/ (v.t = "str" /\ v.s \in EnumValues(ty))
               THEN [ok |-> TRUE, val |-> v.s]
               ELSE [ok |-> FALSE, val |-> ""]
          [] ty = "float" ->
               IF v.t \in {"float", "int"}
               THEN [ok |-> ~FloatLt(v.d, 0), val |-> v.d]
               ELSE IF v.t = "str"
               THEN [ok |-> ParseFloat(v.s).ok /\ ~FloatLt(ParseFloat(v.s).val, 0),
                     val |-> ParseFloat(v.s).val]
               ELSE [ok |-> FALSE, val |-> 0]
          [] ty = "str" ->
               [ok |-> TRUE, val |-> v.s]

\* Whether the entry (key, v) ends up in valid_updates.
AcceptedEvenId(sub, key, v) ==
    /\ key \in Attributes
    /\ IF v.t = "NoneType"
       THEN IsOptional(key) /\ sub[key] # NoDate
       ELSE Coerce(key, v).ok /\ sub[key] # Coerce(key, v).val

Accepted(sub, key, v) ==
    /\ key # "id"
    /\ key \in Attributes
    /\ IF v.t = "NoneType"
       THEN IsOptional(key) /\ sub[key] # NoDate
       ELSE /\ Coerce(key, v).ok
            /\ IF key = "cost"
               THEN FloatNe(sub[key], Coerce(key, v).val)
               ELSE sub[key] # Coerce(key, v).val

\* valid_updates; changed_fields is its key set.
_validate_and_prepare_updates(sub, data) ==
    [key \in {k \in DOMAIN data : Accepted(sub, k, data[k])} |->
        IF data[key].t = "NoneType" THEN NoDate ELSE Coerce(key, data[key]).val]

\* for key, value in valid_updates.items(): setattr(...)
ApplyUpdates(sub, valid_updates) ==
    [f \in DOMAIN sub |->
        IF f \in DOMAIN valid_updates THEN valid_updates[f] ELSE sub[f]]

\* The result is [sub, changed].
EnsureNothing(sub) == [sub |-> sub, changed |-> FALSE]

\* _ensure_status_consistency as it would be without the way back to active.
EnsureTrialOnly(sub) ==
    IF sub.trial_end_date # NoDate /\ sub.status # "trial"
    THEN [sub |-> [sub EXCEPT !.status = "trial"], changed |-> TRUE]
    ELSE [sub |-> sub, changed |-> FALSE]

_ensure_status_consistency(sub) ==
    IF sub.trial_end_date # NoDate /\ sub.status # "trial"
    THEN [sub |-> [sub EXCEPT !.status = "trial"], changed |-> TRUE]
    ELSE IF sub.trial_end_date = NoDate /\ sub.status = "trial"
    THEN [sub |-> [sub EXCEPT !.status = "active"], changed |-> TRUE]
    ELSE [sub |-> sub, changed |-> FALSE]

\* The result is [sub, changed]; changed_fields is always a set here.
UpdateRenewalManualEvenOnTrial(sub, changed_fields, manually_set, now) ==
    LET r == calculate_next_renewal_date(sub.start_date, sub.billing_cycle,
                                         NoDate, now)
        new_renewal_date ==
            IF manually_set THEN sub.next_renewal_date
            ELSE IF sub.status \in {"trial", "cancelled"} THEN NoDate
            ELSE IF changed_fields \cap {"start_date", "billing_cycle", "status"} # {}
            THEN (IF r.err THEN NoDate ELSE r.date)
            ELSE sub.next_renewal_date
    IN  [sub |-> [sub EXCEPT !.next_renewal_date = new_renewal_date],
         changed |-> sub.next_renewal_date # new_renewal_date]

UpdateRenewalStatusOnly(sub, changed_fields, manually_set, now) ==
    LET r == calculate_next_renewal_date(sub.start_date, sub.billing_cycle,
                                         NoDate, now)
        new_renewal_date ==
            IF manually_set /\ sub.status # "trial" THEN sub.next_renewal_date
            ELSE IF sub.status \in {"trial", "cancelled"} THEN NoDate
            ELSE IF "status" \in changed_fields
            THEN (IF r.err THEN NoDate ELSE r.date)
            ELSE sub.next_renewal_date
    IN  [sub |-> [sub EXCEPT !.next_renewal_date = new_renewal_date],
         changed |-> sub.next_renewal_date # new_renewal_date]

_update_renewal_date(sub, changed_fields, manually_set, now) ==
    LET needs_recalc ==
            changed_fields \cap {"start_date", "billing_cycle", "status"} # {}
        r == calculate_next_renewal_date(sub.start_date, sub.billing_cycle,
                                         NoDate, now)
        new_renewal_date ==
            IF manually_set /\ sub.status # "trial"
            THEN sub.next_renewal_date
            ELSE IF sub.status = "trial" THEN NoDate
            ELSE IF sub.status = "cancelled" THEN NoDate
            ELSE IF needs_recalc
            THEN (IF r.err THEN NoDate ELSE r.date)
            ELSE sub.next_renewal_date
    IN  [sub |-> [sub EXCEPT !.next_renewal_date = new_renewal_date],
         changed |-> sub.next_renewal_date # new_renewal_date]

\* The subscription object after update_subscription's steps 1 to 3, for a
\* non-empty valid_updates.
UpdatedSubscription(sub, data, now) ==
    LET valid_updates == _validate_and_prepare_updates(sub, data)
        applied == ApplyUpdates(sub, valid_updates)
        st == _ensure_status_consistency(applied)
        changed_fields ==
            DOMAIN valid_updates \cup (IF st.changed THEN {"status"} ELSE {})
    IN  _update_renewal_date(st.sub, changed_fields,
                             "next_renewal_date" \in DOMAIN valid_updates,
                             now).sub

(***************************************************************************)
(* Cost normalization.  The costs the model uses are multiples of 24, so   *)
(* that every quotient below is exact.                                     *)
(***************************************************************************)
FloatMul(a, b) == IF a = NaN \/ b = NaN THEN NaN ELSE a * b

FloatGt(a, b) == a # NaN /\ b # NaN /\ a > b

\* str.lower() for the period names the model passes.
Lower(text) ==
    CASE text = "Monthly" -> "monthly"
      [] text = "ANNUALLY" -> "annually"
      [] OTHER -> text

_get_annual_factor(cycle) ==
    CASE cycle = "monthly" -> 12
      [] cycle = "yearly" -> 1
      [] cycle = "quarterly" -> 4
      [] cycle = "weekly" -> 52
      [] cycle = "bi-annually" -> 2
      [] OTHER -> 0

\* The result is [err, val]: err is the ValueError for an unsupported period.
_normalize_cost_to_period(cost, cycle, target_period) ==
    LET annual_cost == FloatMul(cost, _get_annual_factor(cycle))
    IN  IF Lower(target_period) = "monthly"
        THEN [err |-> FALSE,
              val |-> IF FloatGt(annual_cost, 0) THEN annual_cost \div 12 ELSE 0]
        ELSE IF Lower(target_period) = "annually"
        THEN [err |-> FALSE, val |-> annual_cost]
        ELSE [err |-> TRUE, val |-> 0]

\* The loop of calculate_cost_per_period over the subscriptions S of subs.
RECURSIVE TotalOverAllStatuses(_, _, _)
TotalOverAllStatuses(subs, S, period) ==
    IF S = {} THEN 0
    ELSE LET i == CHOOSE x \in S : TRUE
         IN  _normalize_cost_to_period(subs[i].cost, subs[i].billing_cycle,
                                       period).val
             + TotalOverAllStatuses(subs, S \ {i}, period)

RECURSIVE TotalCostForPeriod(_, _, _)
TotalCostForPeriod(subs, S, period) ==
    IF S = {} THEN 0
    ELSE LET i == CHOOSE x \in S : TRUE
         IN  (IF subs[i].status = "active"
              THEN _normalize_cost_to_period(subs[i].cost,
                       subs[i].billing_cycle, period).val
              ELSE 0)
             + TotalCostForPeriod(subs, S \ {i}, period)

\* The result is [err, val]: err is the ValueError for a period that is
\* neither 'monthly' nor 'annually'.
calculate_cost_per_period(subs, period) ==
    IF Lower(period) \notin {"monthly", "annually"}
    THEN [err |-> TRUE, val |-> 0]
    ELSE [err |-> FALSE,
          val |-> TotalCostForPeriod(subs, DOMAIN subs, Lower(period))]

(***************************************************************************)
(* Categories and budgets.  A budget is the dict under the key "monthly":  *)
(* its global amount and its amounts per category; None is NoBudget.  The  *)
(* module-level _DEFAULT_BUDGET is copied with dict.copy(), which is       *)
(* shallow: the dict under "monthly" of every such copy is the one object  *)
(* of the module.  A configuration cfg has                                 *)
(*   default_budget  the present content of _DEFAULT_BUDGET["monthly"],    *)
(*   categories      self._categories of the service,                      *)
(*   own             whether self._budget["monthly"] is a dict of the      *)
(*                   service's own (as after set_budget) and not the       *)
(*                   module's,                                             *)
(*   budget          that own dict,                                        *)
(*   settings        the settings file of the service,                     *)
(*   other           a second service of the same process, constructed on  *)
(*                   paths where no file exists: whether it has been       *)
(*                   constructed and its self._categories; its budget is   *)
(*                   the module's dict at all times.                       *)
(***************************************************************************)
_DEFAULT_CATEGORIES == {"Software", "Streaming", "Utilities", "Other"}

NoBudget == 0 - 1

NoCategoryBudgets == [c \in {} |-> NoBudget]

_DEFAULT_BUDGET == [global |-> NoBudget, categories |-> NoCategoryBudgets]

NoSettings ==
    [exists |-> FALSE, categories |-> {}, budget |-> _DEFAULT_BUDGET]

NoConfig ==
    [default_budget |-> _DEFAULT_BUDGET, categories |-> {}, own |-> FALSE,
     budget |-> _DEFAULT_BUDGET, settings |-> NoSettings,
     other |-> [up |-> FALSE, categories |-> {}]]

\* self._budget["monthly"], which is also self.settings["budget"]["monthly"].
Budget(cfg) == IF cfg.own THEN cfg.budget ELSE cfg.default_budget

\* An assignment into self._budget["monthly"].
WriteBudget(cfg, b) ==
    IF cfg.own THEN [cfg EXCEPT !.budget = b]
    ELSE [cfg EXCEPT !.default_budget = b]

\* dict[key] = value
SetItem(f, key, value) ==
    [k \in DOMAIN f \cup {key} |-> IF k = key THEN value ELSE f[k]]

\* del dict[key]
DelItem(f, key) == [k \in DOMAIN f \ {key} |-> f[k]]

\* str.strip() for the names the model passes.
Strip(text) ==
    CASE text = " " -> ""
      [] text = " Games " -> "Games"
      [] OTHER -> text

_save_settings(cfg) ==
    [cfg EXCEPT !.settings = [exists |-> TRUE, categories |-> cfg.categories,
                              budget |-> Budget(cfg)]]

\* The module's dict after _extracted_from__load_settings_20 has validated
\* the budget of the file into _DEFAULT_BUDGET.copy().
MergedBudget(b, file_budget) ==
    [global |-> file_budget.global,
     categories |->
         [c \in DOMAIN b.categories \cup DOMAIN file_budget.categories |->
             IF c \in DOMAIN file_budget.categories
             THEN file_budget.categories[c] ELSE b.categories[c]]]

\* __init__'s settings: _load_settings, self._categories, self._budget.
\* Without a file the defaults are saved and used.
_load_settings(cfg) ==
    IF cfg.settings.exists
    THEN [cfg EXCEPT !.categories = cfg.settings.categories,
                     !.own = FALSE,
                     !.budget = _DEFAULT_BUDGET,
                     !.default_budget =
                         MergedBudget(cfg.default_budget, cfg.settings.budget)]
    ELSE _save_settings([cfg EXCEPT !.categories = _DEFAULT_CATEGORIES,
                                    !.own = FALSE,
                                    !.budget = _DEFAULT_BUDGET])

\* A new Python process: the module is imported afresh.
FreshProcess(cfg) ==
    [cfg EXCEPT !.default_budget = _DEFAULT_BUDGET,
                !.other = [up |-> FALSE, categories |-> {}]]

get_categories(cfg) == cfg.categories \cup DOMAIN Budget(cfg).categories

\* get_categories and get_budget of the second service.
OtherCategories(cfg) ==
    cfg.other.categories \cup DOMAIN cfg.default_budget.categories

OtherBudget(cfg) == cfg.default_budget

\* The result is [cfg, ret].
add_category(cfg, category) ==
    LET c == Strip(category)
        category_added == c # "" /\ c \notin cfg.categories
        cfg1 == IF category_added
                THEN [cfg EXCEPT !.categories = @ \cup {c}] ELSE cfg
        cfg2 == IF c # "" /\ c \notin DOMAIN Budget(cfg1).categories
                THEN WriteBudget(cfg1,
                         [Budget(cfg1) EXCEPT
                             !.categories = SetItem(@, c, NoBudget)])
                ELSE cfg1
    IN  [cfg |-> IF category_added THEN _save_settings(cfg2) ELSE cfg2,
         ret |-> category_added]

\* float(budget), made None when negative.  An amount is a number here.
ValidatedAmount(budget) == IF budget < 0 THEN NoBudget ELSE budget

set_monthly_category_budget(cfg, category, budget) ==
    LET c == Strip(category)
        cfg1 == WriteBudget(cfg,
                    [Budget(cfg) EXCEPT
                        !.categories = SetItem(@, c, ValidatedAmount(budget))])
        cfg2 == [cfg1 EXCEPT !.categories = @ \cup {c}]
    IN  IF c = "" THEN cfg ELSE _save_settings(cfg2)

\* set_budget({"monthly": data}); data is a function on a subset of
\* {"global", "categories"}.  The result is [cfg, ret].
SetBudgetGlobal(current, data) ==
    IF /\ "global" \in DOMAIN data
       /\ (data["global"] = NoBudget \/ data["global"] >= 0)
    THEN [current EXCEPT !.global = data["global"]]
    ELSE current

\* The loop over category_updates: each entry is handled on its own.
SetBudgetCategoryEntryValid(cfg, category, value) ==
    /\ (category \in get_categories(cfg) \/ category = "Uncategorized")
    /\ (value = NoBudget \/ value >= 0)

SetBudgetCategories(cfg, current, updates) ==
    [current EXCEPT !.categories =
        [c \in {k \in DOMAIN current.categories \cup DOMAIN updates :
                   IF k \in DOMAIN updates
                      /\ SetBudgetCategoryEntryValid(cfg, k, updates[k])
                   THEN updates[k] # NoBudget
                   ELSE k \in DOMAIN current.categories} |->
            IF c \in DOMAIN updates
               /\ SetBudgetCategoryEntryValid(cfg, c, updates[c])
            THEN updates[c] ELSE current.categories[c]]]

\* updated: an amount was changed, or a key with an amount was removed.
SetBudgetUpdated(old, new) ==
    \/ old.global # new.global
    \/ \E c \in DOMAIN new.categories :
          c \notin DOMAIN old.categories \/ old.categories[c] # new.categories[c]
    \/ \E c \in DOMAIN old.categories \ DOMAIN new.categories :
          old.categories[c] # NoBudget

set_budget(cfg, data) ==
    LET old == Budget(cfg)
        g == SetBudgetGlobal(old, data)
        current == IF "categories" \in DOMAIN data
                   THEN SetBudgetCategories(cfg, g, data["categories"])
                   ELSE g
    IN  IF SetBudgetUpdated(old, current)
        THEN [cfg |-> _save_settings([cfg EXCEPT !.own = TRUE,
                                                 !.budget = current]),
              ret |-> TRUE]
        ELSE [cfg |-> cfg, ret |-> FALSE]
\* The result is [cfg, subs, ret, saved]: saved tells whether the data file
\* was written.
delete_category(cfg, subs, category_to_delete) ==
    LET c == Strip(category_to_delete)
        settings_changed ==
            c \in cfg.categories \/ c \in DOMAIN Budget(cfg).categories
        subscriptions_changed == \E i \in DOMAIN subs : subs[i].category = c
        cfg1 == [cfg EXCEPT !.categories = @ \ {c}]
        cfg2 == WriteBudget(cfg1,
                    [Budget(cfg1) EXCEPT !.categories = DelItem(@, c)])
    IN  IF c = "" \/ c = "Uncategorized"
        THEN [cfg |-> cfg, subs |-> subs, ret |-> FALSE, saved |-> FALSE]
        ELSE [cfg |-> IF settings_changed THEN _save_settings(cfg2) ELSE cfg,
              subs |-> [i \in DOMAIN subs |->
                          IF subs[i].category = c
                          THEN [subs[i] EXCEPT !.category = "Uncategorized"]
                          ELSE subs[i]],
              ret |-> settings_changed \/ subscriptions_changed,
              saved |-> subscriptions_changed]

\* The key under which calculate_cost_per_category counts a subscription.
CategoryKey(sub) ==
    IF Strip(sub.category) # "" THEN Strip(sub.category) ELSE "Uncategorized"

\* not sub.category or not sub.category.strip()
HasBlankCategory(sub) == Strip(sub.category) = ""

\* calculate_cost_per_category as it would be without the categories that
\* no active subscription uses.
CostPerCategoryUsedOnly(subs, cfg, period) ==
    IF Lower(period) \notin {"monthly", "annually"}
    THEN [err |-> TRUE, val |-> [c \in {} |-> 0]]
    ELSE [err |-> FALSE,
          val |-> [c \in {CategoryKey(subs[i]) :
                             i \in {j \in DOMAIN subs :
                                       subs[j].status = "active"}} |->
                     TotalCostForPeriod(subs,
                         {i \in DOMAIN subs : CategoryKey(subs[i]) = c},
                         Lower(period))]]

\* The result is [err, val]: err is the ValueError for a period that is
\* neither 'monthly' nor 'annually', val the dict from category to cost.
calculate_cost_per_category(subs, cfg, period) ==
    LET active == {i \in DOMAIN subs : subs[i].status = "active"}
        keys == {CategoryKey(subs[i]) : i \in active}
                \cup get_categories(cfg)
                \cup (IF \E i \in active : HasBlankCategory(subs[i])
                      THEN {"Uncategorized"} ELSE {})
    IN  IF Lower(period) \notin {"monthly", "annually"}
        THEN [err |-> TRUE, val |-> [c \in {} |-> 0]]
        ELSE [err |-> FALSE,
              val |-> [c \in keys |->
                         TotalCostForPeriod(subs,
                             {i \in DOMAIN subs : CategoryKey(subs[i]) = c},
                             Lower(period))]]

\* dict.get(key, 0.0)
GetOrZero(f, key) == IF key \in DOMAIN f THEN f[key] ELSE 0

\* check_budget_alerts: the scopes for which the list has an alert, the
\* global scope as [global |-> TRUE, category |-> ""].
GlobalScope == [global |-> TRUE, category |-> ""]

CategoryScope(c) == [global |-> FALSE, category |-> c]

AlertsGlobalOnly(subs, cfg) ==
    IF /\ Budget(cfg).global >= 0
       /\ calculate_cost_per_period(subs, "monthly").val > Budget(cfg).global
    THEN {GlobalScope} ELSE {}

check_budget_alerts(subs, cfg) ==
    LET monthly_budget_data == Budget(cfg)
        category_budgets == monthly_budget_data.categories
        monthly_costs_per_category ==
            calculate_cost_per_category(subs, cfg, "monthly").val
    IN  (IF /\ monthly_budget_data.global >= 0
            /\ calculate_cost_per_period(subs, "monthly").val
                   > monthly_budget_data.global
         THEN {GlobalScope} ELSE {})
        \cup {CategoryScope(c) : c \in
                 {k \in DOMAIN category_budgets :
                     /\ category_budgets[k] >= 0
                     /\ GetOrZero(monthly_costs_per_category, k)
                            > category_budgets[k]}}

(***************************************************************************)
(* calculate_spending_forecast and get_upcoming_events.                    *)
(***************************************************************************)
\* The first loop: while temp_date < start_date, the calculator is asked
\* for the date after temp_date; an error gives None.
RECURSIVE SeekWindow(_, _, _, _)
SeekWindow(sub, temp_date, start_date, now) ==
    IF temp_date >= start_date
    THEN temp_date
    ELSE LET r == calculate_next_renewal_date(sub.start_date,
                      sub.billing_cycle, temp_date, now)
         IN  IF r.err THEN NoDate
             ELSE SeekWindow(sub, r.date, start_date, now)

\* The second loop: the cost is added for current_renewal_date and for the
\* dates the calculator gives after it, up to end_date.
RECURSIVE RenewalsUntil(_, _, _, _)
RenewalsUntil(sub, current_renewal_date, end_date, now) ==
    IF current_renewal_date = NoDate \/ current_renewal_date > end_date
    THEN 0
    ELSE LET r == calculate_next_renewal_date(sub.start_date,
                      sub.billing_cycle, current_renewal_date, now)
         IN  sub.cost + (IF r.err THEN 0
                         ELSE RenewalsUntil(sub, r.date, end_date, now))

\* The body of the loop over the subscriptions, for one of them.
ForecastOf(sub, start_date, end_date, now) ==
    IF sub.status # "active" \/ sub.billing_cycle = "other"
    THEN 0
    ELSE LET current ==
                 IF sub.next_renewal_date = NoDate
                    \/ sub.next_renewal_date < start_date
                 THEN SeekWindow(sub,
                          IF sub.next_renewal_date # NoDate
                          THEN sub.next_renewal_date ELSE sub.start_date,
                          start_date, now)
                 ELSE sub.next_renewal_date
         IN  RenewalsUntil(sub, current, end_date, now)

RECURSIVE ForecastOver(_, _, _, _, _)
ForecastOver(subs, S, start_date, end_date, now) ==
    IF S = {} THEN 0
    ELSE LET i == CHOOSE x \in S : TRUE
         IN  ForecastOf(subs[i], start_date, end_date, now)
             + ForecastOver(subs, S \ {i}, start_date, end_date, now)

\* The result is [err, val]: err is the ValueError for start_date > end_date.
calculate_spending_forecast(subs, start_date, end_date, now) ==
    IF start_date > end_date
    THEN [err |-> TRUE, val |-> 0]
    ELSE [err |-> FALSE,
          val |-> ForecastOver(subs, DOMAIN subs, start_date, end_date, now)]

\* date + timedelta(days=1)
NextDay(dt) ==
    IF Day(dt) < DaysInMonth(Year(dt), Month(dt))
    THEN MkDate(Year(dt), Month(dt), Day(dt) + 1)
    ELSE IF Month(dt) = 12 THEN MkDate(Year(dt) + 1, 1, 1)
    ELSE MkDate(Year(dt), Month(dt) + 1, 1)

\* date + timedelta(days=n), n >= 0
RECURSIVE AddDays(_, _)
AddDays(dt, n) == IF n = 0 THEN dt ELSE AddDays(NextDay(dt), n - 1)

\* The events get_upcoming_events appends: [id, kind, date], the date being
\* the sort key of the event.
RenewalEvents(subs, now, days_ahead) ==
    {[id |-> i, kind |-> "renews", date |-> subs[i].next_renewal_date] :
        i \in {j \in DOMAIN subs :
                  /\ subs[j].next_renewal_date # NoDate
                  /\ subs[j].status \notin {"trial", "cancelled", "inactive"}
                  /\ now <= subs[j].next_renewal_date
                  /\ subs[j].next_renewal_date <= AddDays(now, days_ahead)}}

TrialEndEvents(subs, now, days_ahead) ==
    {[id |-> i, kind |-> "trial ends", date |-> subs[i].trial_end_date] :
        i \in {j \in DOMAIN subs :
                  /\ subs[j].trial_end_date # NoDate
                  /\ subs[j].status = "trial"
                  /\ now <= subs[j].trial_end_date
                  /\ subs[j].trial_end_date <= AddDays(now, days_ahead)}}

\* The lists of the events E, each event once.
ListsOf(E) ==
    {l \in [1..Cardinality(E) -> E] : \A e \in E : \E n \in DOMAIN l : l[n] = e}

\* get_upcoming_events as it would be without the sort: the events in any
\* order.
UpcomingEventsUnsorted(subs, now, days_ahead) ==
    ListsOf(RenewalEvents(subs, now, days_ahead)
            \cup TrialEndEvents(subs, now, days_ahead))

\* The lists get_upcoming_events may return: list.sort keeps events of the
\* same date in the order of the dict, which the model does not record.
get_upcoming_events(subs, now, days_ahead) ==
    {l \in ListsOf(RenewalEvents(subs, now, days_ahead)
                   \cup TrialEndEvents(subs, now, days_ahead)) :
        \A m, n \in DOMAIN l : m < n => l[m].date <= l[n].date}

(***************************************************************************)
(* The inputs the model draws from.                                        *)
(***************************************************************************)
Ids == {"sub1"}

\* Values of date.today().
Days == {MkDate(2024, 7, 15), MkDate(2025, 3, 1)}

StartDates == {MkDate(2024, 2, 29), MkDate(2024, 9, 10)}

TrialEndDates == {MkDate(2024, 8, 1)}

ServiceCycles == {"yearly", "bi-annually", "other"}

\* The arguments of Subscription(...) before __post_init__.
ConstructorArgs ==
    [id : Ids, category : {"Uncategorized"}, name : {"A"}, cost : {10},
     billing_cycle : ServiceCycles, start_date : StartDates,
     status : SubscriptionStatus,
     next_renewal_date : {NoDate, MkDate(2024, 12, 25)},
     trial_end_date : {NoDate} \cup TrialEndDates]

\* The values a caller passes for each key of an update field map.
UpdateValues(key) ==
    CASE key = "cost" ->
           {PyFloat(20), PyStr("-5"), PyStr("not a number"), PyNone}
      [] key = "billing_cycle" ->
           {PyEnum("BillingCycle", "bi-annually"), PyStr("other"),
            PyStr("fortnightly")}
      [] key = "start_date" ->
           {PyDate(MkDate(2024, 9, 10)), PyIsoStr(2024, 2, 29),
            PyIsoStr(2024, 2, 30)}
      [] key = "status" ->
           {PyEnum("SubscriptionStatus", "active"),
            PyEnum("SubscriptionStatus", "inactive"),
            PyEnum("SubscriptionStatus", "cancelled"),
            PyStr("trial"), PyStr("invalid_status")}
      [] key = "next_renewal_date" ->
           {PyNone, PyDate(MkDate(2024, 1, 1)), PyIsoStr(2024, 12, 25),
            PyStr("not a date")}
      [] key = "trial_end_date" ->
           {PyNone, PyDate(MkDate(2024, 8, 1)), PyStr("soon")}
      [] key = "id" -> {PyStr("sub2")}
      [] key = "non_existent_field" -> {PyStr("some value")}

UpdateKeys ==
    {"cost", "billing_cycle", "start_date", "status", "next_renewal_date",
     "trial_end_date", "id", "non_existent_field"}

EmptyMap == [k \in {} |-> PyNone]

RECURSIVE MapsOver(_)
MapsOver(K) ==
    IF K = {} THEN {EmptyMap}
    ELSE LET k == CHOOSE x \in K : TRUE
         IN  {[x \in DOMAIN f \cup {k} |-> IF x = k THEN v ELSE f[x]] :
                 f \in MapsOver(K \ {k}), v \in UpdateValues(k)}

\* Every field map of at most MaxUpdateFields entries.
UpdateMaps ==
    UNION {MapsOver(K) :
             K \in {S \in SUBSET UpdateKeys : Cardinality(S) <= MaxUpdateFields}}

\* The record of a file, for the files the service may start from.
FileRecord(id, cycle, start, status, renewal, trial) ==
    [id |-> id, name |-> "A", cost |-> 10, category |-> "Uncategorized",
     billing_cycle |-> cycle,
     status |-> status, start_date |-> isoformat(start),
     next_renewal_date |-> renewal, trial_end_date |-> trial]

\* The data files a first service instance may find: none, an empty list,
\* and lists of one record, some written by hand and not consistent.
InitialFiles ==
    {NoFile, [exists |-> TRUE, text |-> "list", records |-> [i \in {} |-> 0]]} \cup
    {[exists |-> TRUE, text |-> "list", records |-> [i \in {"sub1"} |-> r]] :
        r \in {FileRecord("sub1", "yearly", MkDate(2024, 2, 29), "active",
                          <<>>, <<>>),
               FileRecord("sub1", "yearly", MkDate(2024, 2, 29), "trial",
                          <<2024, 12, 25>>, <<2024, 8, 1>>),
               FileRecord("sub1", "bi-annually", MkDate(2024, 9, 10),
                          "cancelled", <<>>, <<>>),
               FileRecord("sub1", "yearly", MkDate(2024, 9, 10), "active",
                          <<>>, <<2024, 8, 1>>),
               FileRecord("sub1", "other", MkDate(2024, 2, 29), "trial",
                          <<2024, 12, 25>>, <<>>),
               FileRecord("sub1", "weekly-ish", MkDate(2024, 2, 29), "paused",
                          <<2024, 1, 1>>, <<>>)}}

(***************************************************************************)
(* The state machine.  The service is synchronous and single-threaded:     *)
(* one call runs to completion at a time.  last records the call that has  *)
(* just returned: its operation, its arguments, what it returned or        *)
(* raised, the dict before it and the value of date.today() it saw; it is  *)
(* cleared when the caller goes on (Continue).                             *)
(***************************************************************************)
\* No Subscription object: the argument slot of a call that takes none.
NoSub ==
    [id |-> "", name |-> "", cost |-> 0, category |-> "",
     billing_cycle |-> "other",
     start_date |-> NoDate, status |-> "",
     next_renewal_date |-> NoDate, trial_end_date |-> NoDate]

EmptyDict == [i \in {} |-> NoSub]

\* obj is the argument object as the call left it, file the data file as
\* the call found it, period and val the argument and the result of a cost
\* calculation, cfg the configuration as the call found it, name a
\* category argument, costs and alerts the results of
\* calculate_cost_per_category and check_budget_alerts, from and to a
\* forecast window, days and events the argument and the result of
\* get_upcoming_events, budget_data the argument of set_budget.
Call(op, id, ret, data, arg, before, now) ==
    [op |-> op, id |-> id, ret |-> ret, data |-> data, arg |-> arg,
     before |-> before, now |-> now, obj |-> arg, file |-> persisted,
     period |-> "", val |-> 0, cfg |-> config, name |-> "",
     costs |-> [c \in {} |-> 0], alerts |-> {}, from |-> NoDate,
     to |-> NoDate, days |-> 0, events |-> <<>>,
     budget_data |-> [k \in {} |-> 0]]

NoCall ==
    [Call("", "", "None", EmptyMap, NoSub, EmptyDict, NoDate)
        EXCEPT !.file = NoFile, !.cfg = NoConfig]

Idle == last.op = ""

\* A service object exists: its constructor did not raise.  The data file
\* is left as it was by a load that raises, and no other call writes a file
\* that makes a load raise.
ServiceUp == ~LoadRaises(persisted)

CalcIdle ==
    [start_date |-> NoDate, cycle |-> "other", last_renewal |-> NoDate,
     result |-> NoDate, raised |-> FALSE, done |-> FALSE]

\* SubscriptionService.__init__ of the first service of a process, with no
\* settings file: _load_settings, then _load_subscriptions.
ServiceStart(file) ==
    /\ config = _load_settings(NoConfig)
    /\ subscriptions = _load_subscriptions(file, today)
    /\ persisted = FileAfterLoad(file, today)
    /\ last = [Call("load", "",
                    IF LoadRaises(file) THEN "ValueError" ELSE "None",
                    EmptyMap, NoSub, EmptyDict, today)
               EXCEPT !.file = file, !.cfg = NoConfig]

Init ==
    /\ today \in Days
    /\ \E file \in InitialFiles : ServiceStart(file)
    /\ calc = CalcIdle

\* A later service instance on the same data and settings files, in the
\* same process or in a new one.
Restart ==
    /\ Idle
    /\ \A i \in DOMAIN _load_subscriptions(persisted, today) :
          Year(_load_subscriptions(persisted, today)[i].next_renewal_date)
              <= MaxYear
    /\ subscriptions' = _load_subscriptions(persisted, today)
    /\ persisted' = FileAfterLoad(persisted, today)
    /\ last' = [Call("load", "",
                      IF LoadRaises(persisted) THEN "ValueError" ELSE "None",
                      EmptyMap, NoSub, subscriptions, today)
                 EXCEPT !.file = persisted]
    /\ \E fresh \in BOOLEAN :
          config' = _load_settings(IF fresh THEN FreshProcess(config)
                                   ELSE config)
    /\ UNCHANGED <<today, calc>>

\* Subscription(**args) followed by add_subscription of the object.  The
\* object that is stored is the argument object itself, with the renewal
\* date add_subscription has assigned to it.
AddSubscriptionOverwriting(args) ==
    LET sub == __post_init__(args)
        stored == [sub EXCEPT !.next_renewal_date = RenewalOnAdd(sub, today)]
    IN  /\ Idle
        /\ ServiceUp
        /\ ~PostInitRaises(args)
        /\ subscriptions' =
               [i \in DOMAIN subscriptions \cup {sub.id} |->
                   IF i = sub.id THEN stored ELSE subscriptions[i]]
        /\ persisted' = _save_subscriptions(subscriptions')
        /\ last' = [Call("add", sub.id, "None", EmptyMap, sub,
                         subscriptions, today) EXCEPT !.obj = stored]
        /\ UNCHANGED <<today, calc, config>>

AddSubscription(args) ==
    LET sub == __post_init__(args)
        stored == [sub EXCEPT !.next_renewal_date = RenewalOnAdd(sub, today)]
    IN  /\ Idle
        /\ ServiceUp
        /\ IF PostInitRaises(args)
           THEN /\ last' = Call("Subscription", args.id, "ValueError",
                                EmptyMap, args, subscriptions, today)
                /\ UNCHANGED <<subscriptions, persisted>>
           ELSE IF sub.id \in DOMAIN subscriptions
           THEN /\ last' = Call("add", sub.id, "ValueError", EmptyMap, sub,
                                subscriptions, today)
                /\ UNCHANGED <<subscriptions, persisted>>
           ELSE /\ subscriptions' =
                       [i \in DOMAIN subscriptions \cup {sub.id} |->
                           IF i = sub.id THEN stored ELSE subscriptions[i]]
                /\ persisted' = _save_subscriptions(subscriptions')
                /\ last' = [Call("add", sub.id, "None", EmptyMap, sub,
                                 subscriptions, today) EXCEPT !.obj = stored]
        /\ UNCHANGED <<today, calc, config>>

\* add_subscription of an argument that is not a Subscription.
AddNotASubscription ==
    /\ Idle
    /\ ServiceUp
    /\ last' = Call("add", "", "TypeError", EmptyMap, NoSub, subscriptions,
                    today)
    /\ UNCHANGED <<subscriptions, persisted, today, calc, config>>

UpdateSubscription(id, data) ==
    /\ Idle
    /\ ServiceUp
    /\ IF id \notin DOMAIN subscriptions
       THEN /\ last' = Call("update", id, "False", data, NoSub,
                            subscriptions, today)
            /\ UNCHANGED <<subscriptions, persisted>>
       ELSE IF DOMAIN _validate_and_prepare_updates(subscriptions[id], data) = {}
       THEN /\ last' = Call("update", id, "False", data, NoSub,
                            subscriptions, today)
            /\ UNCHANGED <<subscriptions, persisted>>
       ELSE /\ subscriptions' =
                   [subscriptions EXCEPT
                       ![id] = UpdatedSubscription(subscriptions[id], data, today)]
            /\ persisted' = _save_subscriptions(subscriptions')
            /\ last' = Call("update", id, "True", data, NoSub,
                            subscriptions, today)
    /\ UNCHANGED <<today, calc, config>>

DeleteEverything(id) ==
    /\ Idle
    /\ ServiceUp
    /\ subscriptions' = EmptyDict
    /\ persisted' = _save_subscriptions(subscriptions')
    /\ last' = Call("delete", id, "True", EmptyMap, NoSub, subscriptions, today)
    /\ UNCHANGED <<today, calc, config>>

DeleteSubscription(id) ==
    /\ Idle
    /\ ServiceUp
    /\ IF id \in DOMAIN subscriptions
       THEN /\ subscriptions' =
                   [i \in DOMAIN subscriptions \ {id} |-> subscriptions[i]]
            /\ persisted' = _save_subscriptions(subscriptions')
            /\ last' = Call("delete", id, "True", EmptyMap, NoSub,
                            subscriptions, today)
       ELSE /\ last' = Call("delete", id, "False", EmptyMap, NoSub,
                            subscriptions, today)
            /\ UNCHANGED <<subscriptions, persisted>>
    /\ UNCHANGED <<today, calc, config>>

\* The calendar moves on between two calls.
AdvanceToday ==
    /\ Idle
    /\ \E d \in Days : d > today /\ today' = d
    /\ UNCHANGED <<subscriptions, persisted, last, calc, config>>

\* The caller has looked at the result of the call and goes on.
Continue ==
    /\ ~Idle
    /\ last' = NoCall
    /\ UNCHANGED <<subscriptions, persisted, today, calc, config>>

\* _normalize_cost_to_period(cost, cycle, target_period), called directly.
NormalizeCost(cost, cycle, period) ==
    LET r == _normalize_cost_to_period(cost, cycle, period)
    IN  /\ Idle
        /\ ServiceUp
        /\ last' = [Call("_normalize_cost_to_period", "",
                         IF r.err THEN "ValueError" ELSE "None", EmptyMap,
                         [NoSub EXCEPT !.cost = cost, !.billing_cycle = cycle],
                         subscriptions, today)
                    EXCEPT !.period = period, !.val = r.val]
        /\ UNCHANGED <<subscriptions, persisted, today, calc, config>>

CalculateCostPerPeriod(period) ==
    LET r == calculate_cost_per_period(subscriptions, period)
    IN  /\ Idle
        /\ ServiceUp
        /\ last' = [Call("calculate_cost_per_period", "",
                         IF r.err THEN "ValueError" ELSE "None", EmptyMap,
                         NoSub, subscriptions, today)
                    EXCEPT !.period = period, !.val = r.val]
        /\ UNCHANGED <<subscriptions, persisted, today, calc, config>>

(***************************************************************************)
(* The calls on categories and budgets.                                    *)
(***************************************************************************)
AddCategory(category) ==
    LET r == add_category(config, category)
    IN  /\ Idle
        /\ ServiceUp
        /\ config' = r.cfg
        /\ last' = [Call("add_category", "",
                         IF r.ret THEN "True" ELSE "False", EmptyMap, NoSub,
                         subscriptions, today)
                    EXCEPT !.name = category]
        /\ UNCHANGED <<subscriptions, persisted, today, calc>>

SetMonthlyCategoryBudget(category, budget) ==
    /\ Idle
    /\ ServiceUp
    /\ config' = set_monthly_category_budget(config, category, budget)
    /\ last' = [Call("set_monthly_category_budget", "", "None", EmptyMap,
                     NoSub, subscriptions, today)
                EXCEPT !.name = category, !.val = budget]
    /\ UNCHANGED <<subscriptions, persisted, today, calc>>

SetBudget(data) ==
    LET r == set_budget(config, data)
    IN  /\ Idle
        /\ ServiceUp
        /\ config' = r.cfg
        /\ last' = [Call("set_budget", "",
                         IF r.ret THEN "True" ELSE "False", EmptyMap, NoSub,
                         subscriptions, today)
                    EXCEPT !.budget_data = data]
        /\ UNCHANGED <<subscriptions, persisted, today, calc>>

DeleteCategory(category) ==
    LET r == delete_category(config, subscriptions, category)
    IN  /\ Idle
        /\ ServiceUp
        /\ config' = r.cfg
        /\ subscriptions' = r.subs
        /\ persisted' = IF r.saved THEN _save_subscriptions(r.subs)
                        ELSE persisted
        /\ last' = [Call("delete_category", "",
                         IF r.ret THEN "True" ELSE "False", EmptyMap, NoSub,
                         subscriptions, today)
                    EXCEPT !.name = category]
        /\ UNCHANGED <<today, calc>>

CalculateCostPerCategory(period) ==
    LET r == calculate_cost_per_category(subscriptions, config, period)
    IN  /\ Idle
        /\ ServiceUp
        /\ last' = [Call("calculate_cost_per_category", "",
                         IF r.err THEN "ValueError" ELSE "None", EmptyMap,
                         NoSub, subscriptions, today)
                    EXCEPT !.period = period, !.costs = r.val]
        /\ UNCHANGED <<subscriptions, persisted, today, calc, config>>

CheckBudgetAlerts ==
    /\ Idle
    /\ ServiceUp
    /\ last' = [Call("check_budget_alerts", "", "None", EmptyMap, NoSub,
                     subscriptions, today)
                EXCEPT !.alerts = check_budget_alerts(subscriptions, config)]
    /\ UNCHANGED <<subscriptions, persisted, today, calc, config>>

\* SubscriptionService(data_path, settings_path) on paths where no file
\* exists, in the process of the first service: the second service.
NewService ==
    /\ Idle
    /\ ~config.other.up
    /\ config' = [config EXCEPT
                     !.other = [up |-> TRUE,
                                categories |-> _DEFAULT_CATEGORIES]]
    /\ last' = Call("SubscriptionService", "", "None", EmptyMap, NoSub,
                    subscriptions, today)
    /\ UNCHANGED <<subscriptions, persisted, today, calc>>

CalculateSpendingForecast(start_date, end_date) ==
    LET r == calculate_spending_forecast(subscriptions, start_date, end_date,
                                         today)
    IN  /\ Idle
        /\ ServiceUp
        /\ last' = [Call("calculate_spending_forecast", "",
                         IF r.err THEN "ValueError" ELSE "None", EmptyMap,
                         NoSub, subscriptions, today)
                    EXCEPT !.from = start_date, !.to = end_date,
                           !.val = r.val]
        /\ UNCHANGED <<subscriptions, persisted, today, calc, config>>

GetUpcomingEvents(days_ahead) ==
    /\ Idle
    /\ ServiceUp
    /\ \E l \in get_upcoming_events(subscriptions, today, days_ahead) :
          last' = [Call("get_upcoming_events", "", "None", EmptyMap, NoSub,
                        subscriptions, today)
                   EXCEPT !.days = days_ahead, !.events = l]
    /\ UNCHANGED <<subscriptions, persisted, today, calc, config>>

(***************************************************************************)
(* The calculator on its own: calc holds the arguments of one call of      *)
(* calculate_next_renewal_date, the value of date.today() is today, and    *)
(* Calculate stores what the call returns or raises.                       *)
(***************************************************************************)
CalcDays == {MkDate(2024, 3, 1), MkDate(2024, 7, 15), MkDate(2025, 3, 5)}

CalcStarts ==
    {MkDate(2024, 1, 31), MkDate(2024, 2, 29), MkDate(2024, 5, 31),
     MkDate(2024, 8, 20)}

CalcLastRenewals ==
    {NoDate, MkDate(2024, 1, 15), MkDate(2024, 6, 30), MkDate(2025, 1, 31)}

CalcInit ==
    /\ today \in CalcDays
    /\ calc \in [start_date : CalcStarts, cycle : BillingCycle,
                 last_renewal : CalcLastRenewals, result : {NoDate},
                 raised : {FALSE}, done : {FALSE}]
    /\ subscriptions = EmptyDict
    /\ persisted = NoFile
    /\ config = NoConfig
    /\ last = NoCall

Calculate ==
    /\ ~calc.done
    /\ LET r == calculate_next_renewal_date(calc.start_date, calc.cycle,
                                            calc.last_renewal, today)
       IN  calc' = [calc EXCEPT !.result = r.date, !.raised = r.err,
                                !.done = TRUE]
    /\ UNCHANGED <<subscriptions, persisted, today, last, config>>

CalcNext == Calculate

SpecCalc == CalcInit /\ [][CalcNext]_vars

Next ==
    \/ Restart
    \/ \E args \in ConstructorArgs : AddSubscription(args)
    \/ AddNotASubscription
    \/ \E id \in Ids, data \in UpdateMaps : UpdateSubscription(id, data)
    \/ \E id \in Ids : DeleteSubscription(id)
    \/ AdvanceToday
    \/ Continue

Spec == Init /\ [][Next]_vars

(***************************************************************************)
(* The service with callers that set the name and the cost: the inputs of  *)
(* the validation of these two fields, in the constructor, in the update   *)
(* and in the load.                                                        *)
(***************************************************************************)
FieldIds == {"sub1"}

FieldArgs ==
    [id : FieldIds, category : {"Uncategorized"}, name : {"A", ""},
     cost : {10, 0 - 5, NaN},
     billing_cycle : {"yearly"}, start_date : {MkDate(2024, 2, 29)},
     status : {"active", "inactive"},
     next_renewal_date : {NoDate}, trial_end_date : {NoDate}]

NameValues == {PyStr(""), PyStr("B"), PyNone}

CostValues ==
    {PyFloat(20), PyFloat(0), PyFloat(0 - 5), PyStr("-5"), PyStr("nan"),
     PyStr("not a number")}

FieldMaps ==
    {[k \in {"name"} |-> v] : v \in NameValues}
    \cup {[k \in {"cost"} |-> v] : v \in CostValues}
    \cup {[k \in {"name", "cost"} |-> IF k = "name" THEN n ELSE c] :
              n \in NameValues, c \in CostValues}

\* Data files written by hand: a record with an empty name, with a
\* negative cost.
FieldFiles ==
    {NoFile} \cup
    {[exists |-> TRUE, text |-> "list",
      records |-> [i \in {"sub1"} |->
                     [id |-> "sub1", name |-> n, cost |-> c,
                      billing_cycle |-> "yearly",
                      start_date |-> <<2024, 2, 29>>]]] :
        n \in {"A", ""}, c \in {10, 0 - 5}}

InitFields ==
    /\ today \in Days
    /\ \E file \in FieldFiles : ServiceStart(file)
    /\ calc = CalcIdle

NextFields ==
    \/ Restart
    \/ \E args \in FieldArgs : AddSubscription(args)
    \/ \E id \in FieldIds, data \in FieldMaps : UpdateSubscription(id, data)
    \/ \E id \in FieldIds : DeleteSubscription(id)
    \/ AdvanceToday
    \/ Continue

SpecFields == InitFields /\ [][NextFields]_vars

(***************************************************************************)
(* The service holding up to two subscriptions.                            *)
(***************************************************************************)
PairIds == {"sub1", "sub2"}

PairArgs ==
    [id : PairIds, category : {"Uncategorized"}, name : {"A"}, cost : {10},
     billing_cycle : {"yearly", "other"}, start_date : {MkDate(2024, 2, 29)},
     status : {"active", "cancelled"},
     next_renewal_date : {NoDate}, trial_end_date : {NoDate} \cup TrialEndDates]

PairMaps ==
    {[k \in {"id"} |-> PyStr("sub2")],
     [k \in {"id"} |-> PyStr("sub3")],
     [k \in {"id", "status"} |->
         IF k = "id" THEN PyStr("sub2")
         ELSE PyEnum("SubscriptionStatus", "inactive")],
     [k \in {"status"} |-> PyStr("cancelled")],
     [k \in {"billing_cycle"} |-> PyStr("other")],
     [k \in {"trial_end_date"} |-> PyNone],
     [k \in {"non_existent_field"} |-> PyStr("some value")]}

\* The data files a first service instance may find: none, and a list of
\* two records.
PairFiles ==
    {NoFile,
     [exists |-> TRUE, text |-> "list",
      records |-> [i \in PairIds |->
                     FileRecord(i, "yearly", MkDate(2024, 9, 10), "active",
                                <<>>, <<>>)]]}

InitPair ==
    /\ today \in Days
    /\ \E file \in PairFiles : ServiceStart(file)
    /\ calc = CalcIdle

NextPair ==
    \/ Restart
    \/ \E args \in PairArgs : AddSubscription(args)
    \/ \E id \in PairIds, data \in PairMaps : UpdateSubscription(id, data)
    \/ \E id \in PairIds : DeleteSubscription(id)
    \/ AdvanceToday
    \/ Continue

SpecPair == InitPair /\ [][NextPair]_vars

(***************************************************************************)
(* The cost calculations, on a service holding up to two subscriptions.    *)
(***************************************************************************)
CostIds == {"sub1", "sub2"}

Costs == {0, 24, 120}

CostArgs ==
    [id : CostIds, category : {"Uncategorized"}, name : {"A"}, cost : Costs,
     billing_cycle : {"monthly", "bi-annually", "other"},
     start_date : {MkDate(2024, 2, 29)},
     status : {"active", "inactive", "cancelled"},
     next_renewal_date : {NoDate}, trial_end_date : {NoDate} \cup TrialEndDates]

Periods == {"monthly", "annually", "Monthly", "weekly"}

InitCost ==
    /\ today = MkDate(2024, 7, 15)
    /\ ServiceStart(NoFile)
    /\ calc = CalcIdle

NextCost ==
    \/ \E args \in CostArgs : AddSubscription(args)
    \/ \E id \in CostIds : DeleteSubscription(id)
    \/ \E cost \in Costs, cycle \in BillingCycle, period \in Periods :
          NormalizeCost(cost, cycle, period)
    \/ \E period \in Periods : CalculateCostPerPeriod(period)
    \/ Continue

SpecCost == InitCost /\ [][NextCost]_vars

(***************************************************************************)
(* The service started on data files of every kind: missing, not JSON,     *)
(* lists whose records were saved with or without a renewal date, and      *)
(* lists holding a malformed record next to a well-formed one.             *)
(***************************************************************************)
\* A record saved for sub1, with the given next_renewal_date entry.
SavedRecord(renewal) ==
    FileRecord("sub1", "yearly", MkDate(2024, 2, 29), "active", renewal, <<>>)

\* The same record without its next_renewal_date key.
RecordWithoutRenewal ==
    [k \in DOMAIN SavedRecord(<<>>) \ {"next_renewal_date"} |->
        SavedRecord(<<>>)[k]]

\* Records of sub2 that are malformed, each in one way.
MalformedRecords ==
    {[id |-> "sub2", cost |-> 10],
     [FileRecord("sub2", "yearly", MkDate(2024, 9, 10), "active", <<>>, <<>>)
         EXCEPT !.name = ""],
     [FileRecord("sub2", "yearly", MkDate(2024, 9, 10), "active", <<>>, <<>>)
         EXCEPT !.cost = 0 - 5],
     [FileRecord("sub2", "yearly", MkDate(2024, 9, 10), "active", <<>>, <<>>)
         EXCEPT !.start_date = <<2024, 2, 30>>],
     FileRecord("sub2", "yearly", MkDate(2024, 9, 10), "active",
                <<0, 0, 0>>, <<>>),
     FileRecord("sub2", "fortnightly", MkDate(2024, 9, 10), "active",
                <<>>, <<>>),
     FileRecord("sub2", "yearly", MkDate(2024, 9, 10), "paused", <<>>, <<>>)}

LoadFiles ==
    {NoFile,
     [exists |-> TRUE, text |-> "corrupt", records |-> [i \in {} |-> 0]],
     [exists |-> TRUE, text |-> "list", records |-> [i \in {} |-> 0]],
     [exists |-> TRUE, text |-> "list",
      records |-> [i \in {"sub1"} |-> RecordWithoutRenewal]]}
    \cup
    {[exists |-> TRUE, text |-> "list",
      records |-> [i \in {"sub1"} |-> SavedRecord(renewal)]] :
        renewal \in {<<>>, <<2024, 3, 31>>, <<2024, 12, 25>>, <<2025, 2, 28>>}}
    \cup
    {[exists |-> TRUE, text |-> "list",
      records |-> [i \in {"sub1", "sub2"} |->
                     IF i = "sub1" THEN SavedRecord(<<>>) ELSE r]] :
        r \in MalformedRecords}

LoadArgs ==
    [id : {"sub1"}, category : {"Uncategorized"}, name : {"A"}, cost : {10},
     billing_cycle : {"yearly", "other"}, start_date : StartDates,
     status : {"active", "inactive"},
     next_renewal_date : {NoDate}, trial_end_date : {NoDate}]

LoadMaps ==
    {[k \in {"next_renewal_date"} |-> PyIsoStr(2024, 12, 25)],
     [k \in {"status"} |-> PyEnum("SubscriptionStatus", "inactive")],
     [k \in {"billing_cycle"} |-> PyStr("other")]}

InitLoad ==
    /\ today \in Days
    /\ \E file \in LoadFiles : ServiceStart(file)
    /\ calc = CalcIdle

NextLoad ==
    \/ Restart
    \/ \E args \in LoadArgs : AddSubscription(args)
    \/ \E id \in {"sub1"}, data \in LoadMaps : UpdateSubscription(id, data)
    \/ \E id \in {"sub1"} : DeleteSubscription(id)
    \/ AdvanceToday
    \/ Continue

SpecLoad == InitLoad /\ [][NextLoad]_vars

(***************************************************************************)
(* Categories, budgets and the costs per category, on a service holding up *)
(* to two subscriptions.                                                   *)
(***************************************************************************)
BudgetIds == {"sub1", "sub2"}

BudgetArgs ==
    [id : {"sub1"}, category : {"Software", ""}, name : {"A"},
     cost : {24}, billing_cycle : {"monthly", "yearly"},
     start_date : {MkDate(2024, 2, 29)}, status : {"active", "cancelled"},
     next_renewal_date : {NoDate}, trial_end_date : {NoDate}]
    \cup
    [id : {"sub2"}, category : {"Games", " "}, name : {"A"},
     cost : {24}, billing_cycle : {"monthly"},
     start_date : {MkDate(2024, 2, 29)}, status : {"active"},
     next_renewal_date : {NoDate}, trial_end_date : {NoDate}]

\* The arguments of set_monthly_category_budget.
CategoryBudgets == {<<"Uncategorized", 0>>, <<"Software", 30>>}

\* The dicts under "monthly" passed to set_budget: a global amount and an
\* amount for a category.
BudgetData ==
    {[k \in {"global"} |-> 30],
     [k \in {"categories"} |-> [c \in {"Software"} |-> 0]]}

InitBudget ==
    /\ today = MkDate(2024, 7, 15)
    /\ ServiceStart(NoFile)
    /\ calc = CalcIdle

NextBudget ==
    \/ \E args \in BudgetArgs : AddSubscription(args)
    \/ \E category \in {"Games"} : AddCategory(category)
    \/ \E cb \in CategoryBudgets : SetMonthlyCategoryBudget(cb[1], cb[2])
    \/ \E data \in BudgetData : SetBudget(data)
    \/ \E category \in {"Software"} : DeleteCategory(category)
    \/ \E period \in {"monthly", "annually", "weekly"} :
          CalculateCostPerCategory(period)
    \/ CheckBudgetAlerts
    \/ Continue

SpecBudget == InitBudget /\ [][NextBudget]_vars

(***************************************************************************)
(* Two services in one process: the configuration calls on the first,      *)
(* which holds no subscription, its restarts, and the construction of the  *)
(* second on paths of its own.                                             *)
(***************************************************************************)
\* The arguments of set_monthly_category_budget, a negative amount and a
\* blank name among them.
SharedCategoryBudgets ==
    {<<"Uncategorized", 0>>, <<"Software", 30>>, <<"Software", 0 - 5>>,
     <<" ", 30>>}

\* The dicts under "monthly" passed to set_budget: a global amount, a
\* negative one, an amount for a category, for a category that does not
\* exist, and None for a category.
SharedBudgetData ==
    {[k \in {"global"} |-> 30],
     [k \in {"global"} |-> 0 - 5],
     [k \in {"categories"} |-> [c \in {"Software"} |-> 0]],
     [k \in {"categories"} |-> [c \in {"Music"} |-> 30]],
     [k \in {"categories"} |-> [c \in {"Software"} |-> NoBudget]]}

InitShared ==
    /\ today = MkDate(2024, 7, 15)
    /\ ServiceStart(NoFile)
    /\ calc = CalcIdle

NextShared ==
    \/ Restart
    \/ NewService
    \/ \E category \in {"Games", " "} : AddCategory(category)
    \/ \E cb \in SharedCategoryBudgets :
          SetMonthlyCategoryBudget(cb[1], cb[2])
    \/ \E data \in SharedBudgetData : SetBudget(data)
    \/ \E category \in {"Software", "Uncategorized"} : DeleteCategory(category)
    \/ Continue

SpecShared == InitShared /\ [][NextShared]_vars

(***************************************************************************)
(* The forecast and the upcoming events, on a service holding up to two    *)
(* subscriptions while the calendar moves on.                              *)
(***************************************************************************)
PlanIds == {"sub1", "sub2"}

PlanArgs ==
    [id : PlanIds, category : {"Uncategorized"}, name : {"A"}, cost : {10},
     billing_cycle : {"monthly", "weekly", "other"},
     start_date : {MkDate(2024, 2, 29)},
     status : {"active", "inactive", "cancelled"},
     next_renewal_date : {NoDate}, trial_end_date : {NoDate} \cup TrialEndDates]

\* Forecast windows <<start_date, end_date>>: after both days, between
\* them, on a single day, and with the bounds in the wrong order.
Windows ==
    {<<MkDate(2024, 7, 29), MkDate(2024, 10, 29)>>,
     <<MkDate(2025, 3, 1), MkDate(2025, 5, 31)>>,
     <<MkDate(2024, 7, 18), MkDate(2024, 7, 18)>>,
     <<MkDate(2025, 3, 2), MkDate(2025, 3, 1)>>}

DaysAhead == {0, 7, 30}

InitPlan ==
    /\ today = MkDate(2024, 7, 15)
    /\ ServiceStart(NoFile)
    /\ calc = CalcIdle

NextPlan ==
    \/ \E args \in PlanArgs : AddSubscription(args)
    \/ \E w \in Windows : CalculateSpendingForecast(w[1], w[2])
    \/ \E days_ahead \in DaysAhead : GetUpcomingEvents(days_ahead)
    \/ AdvanceToday
    \/ Continue

SpecPlan == InitPlan /\ [][NextPlan]_vars

(***************************************************************************)
(* Updates of the descriptive fields (name, cost, category) on a service   *)
(* holding up to two subscriptions.                                        *)
(***************************************************************************)
FrameIds == {"sub1", "sub2"}

FrameArgs ==
    [id : FrameIds, category : {"Uncategorized"}, name : {"A"}, cost : {10},
     billing_cycle : {"yearly", "other"}, start_date : {MkDate(2024, 2, 29)},
     status : {"active", "cancelled"},
     next_renewal_date : {NoDate}, trial_end_date : {NoDate} \cup TrialEndDates]

\* Field maps that name descriptive fields only, and one that does not.
FrameMaps ==
    {[k \in {"name"} |-> PyStr("B")],
     [k \in {"cost"} |-> PyFloat(20)],
     [k \in {"category"} |-> PyStr("Software")],
     [k \in {"name", "cost"} |-> IF k = "name" THEN PyStr("B") ELSE PyStr("20")],
     [k \in {"name"} |-> PyStr("A")],
     [k \in {"status"} |-> PyStr("active")]}

InitFrame ==
    /\ today \in Days
    /\ ServiceStart(NoFile)
    /\ calc = CalcIdle

NextFrame ==
    \/ \E args \in FrameArgs : AddSubscription(args)
    \/ \E id \in FrameIds, data \in FrameMaps : UpdateSubscription(id, data)
    \/ \E id \in FrameIds : DeleteSubscription(id)
    \/ AdvanceToday
    \/ Continue

SpecFrame == InitFrame /\ [][NextFrame]_vars

(***************************************************************************)
(* The claims.                                                             *)
(***************************************************************************)
\* The call that has just returned is an update_subscription of a stored id.
UpdateOfStored == last.op = "update" /\ last.id \in DOMAIN last.before

Before == last.before[last.id]

After == subscriptions[last.id]

C2_TrialHasNoRenewal ==
    \A i \in DOMAIN subscriptions :
        subscriptions[i].status = "trial"
            => subscriptions[i].next_renewal_date = NoDate

\* An update that supplied a valid next_renewal_date together with the
\* trial_end_date that makes the subscription a trial.
C2_Witness ==
    /\ UpdateOfStored
    /\ last.ret = "True"
    /\ DOMAIN last.data = {"next_renewal_date", "trial_end_date"}
    /\ last.data["next_renewal_date"] = PyIsoStr(2024, 12, 25)
    /\ last.data["trial_end_date"].t = "date"
    /\ Before.status = "active"
    /\ After.status = "trial"
    /\ After.next_renewal_date = NoDate

\* C3: in every reachable state of the service every stored subscription
\* whose status is cancelled has no next_renewal_date.
C3_CancelledHasNoRenewal ==
    \A i \in DOMAIN subscriptions :
        subscriptions[i].status = "cancelled"
            => subscriptions[i].next_renewal_date = NoDate

\* C4: calculate_next_renewal_date never returns a date before today.
C4_NeverPast ==
    (calc.done /\ ~calc.raised) => calc.result >= today

\* A call whose first candidate date was still in the past.
C4_Witness ==
    /\ calc.done
    /\ ~calc.raised
    /\ calc.last_renewal = NoDate
    /\ AddDelta(calc.start_date, calc.cycle) < today
    /\ calc.result >= today

\* The date n cycle steps after from, each step taken from the one before.
RECURSIVE StepsFrom(_, _, _)
StepsFrom(from, cycle, n) ==
    IF n = 0 \/ from = NoDate
    THEN from
    ELSE StepsFrom(AddDelta(from, cycle), cycle, n - 1)

\* Largest number of cycle steps the chain of C5 is followed for.
MaxSteps == 60

\* C5: the result is base advanced by the smallest number k >= 1 of cycle
\* steps that makes it >= today, where base is last_renewal when that is
\* given and later than start_date and start_date otherwise; so the result
\* is later than base and, when k > 1, the date one step earlier is < today.
C5_MinimalSteps ==
    (calc.done /\ ~calc.raised) =>
        LET base == IF calc.last_renewal # NoDate
                       /\ ~(calc.last_renewal < calc.start_date)
                       /\ calc.last_renewal # calc.start_date
                    THEN calc.last_renewal ELSE calc.start_date
        IN  /\ calc.result > base
            /\ \E k \in 1..MaxSteps :
                  /\ StepsFrom(base, calc.cycle, k) = calc.result
                  /\ calc.result >= today
                  /\ \A j \in 1..(k - 1) :
                        StepsFrom(base, calc.cycle, j) < today

\* A call given a last_renewal earlier than start_date that needed more
\* than one step from start_date.
C5_Witness ==
    /\ calc.done
    /\ ~calc.raised
    /\ calc.last_renewal # NoDate
    /\ calc.last_renewal < calc.start_date
    /\ AddDelta(calc.start_date, calc.cycle) < today
    /\ calc.result >= today

\* The value an entry of the field map for a date field stands for.
SuppliedDate(v) ==
    IF v.t = "date" THEN v.d
    ELSE IF v.t = "str" /\ IsIsoDate(v.iso) THEN fromisoformat(v.iso)
    ELSE NoDate

\* Whether an entry for an optional date field is a date, a date string or None.
SuppliedDateIsValid(v) ==
    v.t \in {"date", "NoneType"} \/ (v.t = "str" /\ IsIsoDate(v.iso))

\* C6: after an update whose field map holds a (valid) next_renewal_date and
\* whose resulting status is not trial, next_renewal_date is that value.
C6_ManualOverrideRespected ==
    (/\ UpdateOfStored
     /\ "next_renewal_date" \in DOMAIN last.data
     /\ SuppliedDateIsValid(last.data["next_renewal_date"])
     /\ After.status # "trial")
        => After.next_renewal_date = SuppliedDate(last.data["next_renewal_date"])

\* C7: after an update that changed start_date, billing_cycle or status,
\* supplied no next_renewal_date and left the status active or inactive,
\* next_renewal_date is the calculator's result for the new start_date and
\* billing_cycle, and None for the cycle other.
C7_RecomputeOnChange ==
    (/\ UpdateOfStored
     /\ "next_renewal_date" \notin DOMAIN last.data
     /\ \/ After.start_date # Before.start_date
        \/ After.billing_cycle # Before.billing_cycle
        \/ After.status # Before.status
     /\ After.status \in {"active", "inactive"})
        => After.next_renewal_date =
              IF After.billing_cycle = "other" THEN NoDate
              ELSE calculate_next_renewal_date(After.start_date,
                       After.billing_cycle, NoDate, last.now).date

\* An update of the start_date alone that moved the renewal date.
C7_Witness ==
    /\ UpdateOfStored
    /\ DOMAIN last.data = {"start_date"}
    /\ After.start_date # Before.start_date
    /\ After.status = "active"
    /\ After.billing_cycle = "yearly"
    /\ Before.next_renewal_date # NoDate
    /\ After.next_renewal_date # Before.next_renewal_date
    /\ After.next_renewal_date = AddYears(After.start_date, 1)

\* C8: update_subscription returns True exactly when the stored
\* subscription differs after the call from what it was before.
C8_ReturnsWhetherChanged ==
    last.op = "update" =>
        ((last.ret = "True") <=> (subscriptions # last.before))

\* The entries the claim calls invalid: an unknown field name, an
\* unparsable date or enum string, a non-numeric or negative cost, None for
\* a field that is not optional.
EntryIsInvalid(key, v) ==
    \/ key \notin Attributes
    \/ /\ key \in {"start_date", "next_renewal_date", "trial_end_date"}
       /\ v.t = "str"
       /\ ~IsIsoDate(v.iso)
    \/ /\ key \in {"billing_cycle", "status"}
       /\ v.t = "str"
       /\ v.s \notin (IF key = "status" THEN SubscriptionStatus ELSE BillingCycle)
    \/ /\ key = "cost"
       /\ \/ v.t = "str" /\ ~ParseFloat(v.s).ok
          \/ v.t = "str" /\ ParseFloat(v.s).val < 0
          \/ v.t = "float" /\ v.d < 0
    \/ /\ key \in {"name", "cost", "billing_cycle", "start_date", "status"}
       /\ v.t = "NoneType"

EntryIsValid(key, v) ==
    key \in Attributes \ {"id"} /\ ~EntryIsInvalid(key, v)

\* The field value a valid entry stands for.
EntryValue(key, v) ==
    CASE key \in {"start_date", "next_renewal_date", "trial_end_date"} ->
           SuppliedDate(v)
      [] key \in {"billing_cycle", "status", "name"} -> v.s
      [] key = "cost" -> IF v.t = "str" THEN ParseFloat(v.s).val ELSE v.d

\* Some valid entry of the field map differs from the stored value.
SomeValidEntryChanges ==
    \E key \in DOMAIN last.data :
        /\ EntryIsValid(key, last.data[key])
        /\ EntryValue(key, last.data[key]) # Before[key]

\* The field map of the call mixes invalid entries with valid ones.
MixedFieldMap ==
    /\ UpdateOfStored
    /\ \E key \in DOMAIN last.data : EntryIsInvalid(key, last.data[key])
    /\ \E key \in DOMAIN last.data : EntryIsValid(key, last.data[key])

DerivedFields == {"status", "next_renewal_date"}

C10_AddComputesRenewal ==
    (/\ last.op = "add"
     /\ last.id \notin DOMAIN last.before
     /\ last.arg.status \in {"active", "inactive"})
        => LET r == calculate_next_renewal_date(last.arg.start_date,
                        last.arg.billing_cycle, NoDate, last.now)
           IN  /\ last.ret = "None"
               /\ last.id \in DOMAIN subscriptions
               /\ r.err <=> (last.arg.billing_cycle = "other")
               /\ After = [last.arg EXCEPT !.next_renewal_date =
                              IF r.err THEN NoDate ELSE r.date]

\* An add whose caller had put another next_renewal_date in the object.
C10_Witness ==
    /\ last.op = "add"
    /\ last.ret = "None"
    /\ last.arg.status = "inactive"
    /\ last.arg.billing_cycle = "yearly"
    /\ last.arg.next_renewal_date = MkDate(2024, 12, 25)
    /\ After.next_renewal_date = AddYears(last.arg.start_date, 1)
    /\ After.next_renewal_date # last.arg.next_renewal_date

\* C11: add_subscription with an id that is already stored raises
\* ValueError, and with an argument that is not a Subscription raises
\* TypeError; a call that raised has left the dict (so the subscription
\* stored under that id), the argument object and the data file as they
\* were.
C11_AddRejectedChangesNothing ==
    /\ (last.op = "add" /\ last.id \in DOMAIN last.before)
          => last.ret = "ValueError"
    /\ (last.op = "add" /\ last.arg = NoSub) => last.ret = "TypeError"
    /\ (last.op = "add" /\ last.ret # "None")
          => /\ subscriptions = last.before
             /\ persisted = last.file
             /\ last.obj = last.arg

\* An add of an object that differs from the one stored under its id.
C11_Witness ==
    /\ last.op = "add"
    /\ last.id \in DOMAIN last.before
    /\ last.ret = "ValueError"
    /\ last.arg.billing_cycle # Before.billing_cycle
    /\ last.arg.next_renewal_date # NoDate
    /\ After = Before

\* C12: in every reachable state of the service every stored subscription
\* has a non-empty name.
C12_NameNeverEmpty ==
    \A i \in DOMAIN subscriptions : subscriptions[i].name # ""

\* C13: in every reachable state of the service every stored subscription
\* has cost >= 0.
C13_CostNeverNegative ==
    \A i \in DOMAIN subscriptions : FloatGe(subscriptions[i].cost, 0)

\* C14: every key k of the dict maps to a subscription whose id is k, so no
\* two stored subscriptions share an id; update_subscription leaves the id
\* of the subscription as it was, and a field map holding only an 'id'
\* entry changes nothing and returns False.
C14_IdImmutableAndKeyed ==
    /\ \A k \in DOMAIN subscriptions : subscriptions[k].id = k
    /\ \A j, k \in DOMAIN subscriptions :
          j # k => subscriptions[j].id # subscriptions[k].id
    /\ UpdateOfStored =>
          /\ last.id \in DOMAIN subscriptions
          /\ After.id = Before.id
          /\ DOMAIN subscriptions = DOMAIN last.before
    /\ (UpdateOfStored /\ DOMAIN last.data = {"id"}) =>
          /\ last.ret = "False"
          /\ subscriptions = last.before

\* An update carrying the id of the other stored subscription together
\* with a change of status.
C14_Witness ==
    /\ UpdateOfStored
    /\ last.ret = "True"
    /\ DOMAIN last.data = {"id", "status"}
    /\ last.data["id"].s # last.id
    /\ last.data["id"].s \in DOMAIN subscriptions
    /\ After.status # Before.status
    /\ After.id = last.id

\* C15: delete_subscription of a stored id returns True, removes that key
\* and leaves every other stored subscription as it was; of an id that is
\* not stored it returns False and leaves the dict and the data file as
\* they were.
C15_DeleteFrame ==
    last.op = "delete" =>
        IF last.id \in DOMAIN last.before
        THEN /\ last.ret = "True"
             /\ DOMAIN subscriptions = DOMAIN last.before \ {last.id}
             /\ \A k \in DOMAIN subscriptions :
                   subscriptions[k] = last.before[k]
        ELSE /\ last.ret = "False"
             /\ subscriptions = last.before
             /\ persisted = last.file

\* A delete of one of two stored subscriptions.
C15_Witness ==
    /\ last.op = "delete"
    /\ last.ret = "True"
    /\ DOMAIN last.before = PairIds
    /\ DOMAIN subscriptions = PairIds \ {last.id}

\* A delete of an id that an earlier delete has removed, while another
\* subscription is stored.
C15_WitnessAbsent ==
    /\ last.op = "delete"
    /\ last.ret = "False"
    /\ persisted.exists
    /\ DOMAIN subscriptions = PairIds \ {last.id}

\* C16: after a load, every loaded subscription whose status is active or
\* inactive and whose cycle is not other has next_renewal_date = the
\* calculator's result for its start_date and billing_cycle alone,
\* whatever next_renewal_date the file held for it.
C16_LoadRecomputesFromStart ==
    (last.op = "load" /\ last.ret = "None") =>
        \A i \in DOMAIN subscriptions :
            (/\ subscriptions[i].status \in {"active", "inactive"}
             /\ subscriptions[i].billing_cycle # "other")
                => subscriptions[i].next_renewal_date =
                      calculate_next_renewal_date(
                          subscriptions[i].start_date,
                          subscriptions[i].billing_cycle, NoDate, last.now).date

\* A record is well-formed as the claim of C17 counts it: it has the
\* required fields, a non-empty name, a cost that is not negative, date
\* strings that are dates and enum strings that are enum values.
WellFormed(r) ==
    /\ RequiredFields \subseteq DOMAIN r
    /\ DOMAIN r \subseteq Attributes
    /\ r.name # ""
    /\ ~FloatLt(r.cost, 0)
    /\ \A k \in DOMAIN r \cap DateKeys : r[k] = <<>> \/ IsIsoDate(r[k])
    /\ r.billing_cycle \in BillingCycle
    /\ "status" \in DOMAIN r => r.status \in SubscriptionStatus

\* C17: a load never raises; a missing file or a file that is not JSON
\* gives an empty dict; from a list, exactly the well-formed records are
\* loaded, each malformed record being skipped.
C17_LoadNeverFails ==
    last.op = "load" =>
        /\ last.ret = "None"
        /\ (~last.file.exists \/ last.file.text = "corrupt")
              => subscriptions = EmptyDict
        /\ (last.file.exists /\ last.file.text = "list")
              => DOMAIN subscriptions =
                    {last.file.records[i].id :
                        i \in {j \in DOMAIN last.file.records :
                                  WellFormed(last.file.records[j])}}

\* The next_renewal_date a record of the data file holds, None when the key
\* is missing or null.
RecordRenewal(r) ==
    IF "next_renewal_date" \in DOMAIN r /\ r["next_renewal_date"] # <<>>
    THEN fromisoformat(r["next_renewal_date"]) ELSE NoDate

\* The load that has just returned gave some subscription another
\* next_renewal_date than its record held.
LoadCorrectedDates ==
    /\ last.op = "load"
    /\ last.ret = "None"
    /\ \E i \in DOMAIN last.file.records :
          /\ last.file.records[i].id \in DOMAIN subscriptions
          /\ subscriptions[last.file.records[i].id].next_renewal_date
                # RecordRenewal(last.file.records[i])

\* The call that has just returned is a completed mutating operation.
CompletedMutation ==
    \/ last.op = "add" /\ last.ret = "None"
    \/ last.op = "update" /\ last.ret = "True"
    \/ last.op = "delete" /\ last.ret = "True"
    \/ LoadCorrectedDates

ClaimedFactorTwice(cycle) ==
    CASE cycle = "monthly" -> 24
      [] cycle = "yearly" -> 2
      [] cycle = "quarterly" -> 8
      [] cycle = "weekly" -> 104
      [] cycle = "bi-annually" -> 1
      [] cycle = "other" -> 0

\* C19: _normalize_cost_to_period returns cost * factor for the period
\* 'annually' and cost * factor / 12 for 'monthly' (0 when cost * factor
\* <= 0), with factor monthly = 12, yearly = 1, quarterly = 4, weekly = 52,
\* bi-annually = 0.5, other = 0; any other period raises ValueError.
C19_NormalizedCost ==
    last.op = "_normalize_cost_to_period" =>
        LET annual == (last.arg.cost * ClaimedFactorTwice(last.arg.billing_cycle))
                          \div 2
        IN  CASE Lower(last.period) = "annually" ->
                   last.ret = "None" /\ last.val = annual
              [] Lower(last.period) = "monthly" ->
                   /\ last.ret = "None"
                   /\ last.val = IF annual <= 0 THEN 0 ELSE annual \div 12
              [] OTHER -> last.ret = "ValueError"

\* The stored subscriptions whose status is active.
ActiveIds == {i \in DOMAIN last.before : last.before[i].status = "active"}

RECURSIVE SumOfNormalized(_, _)
SumOfNormalized(S, period) ==
    IF S = {} THEN 0
    ELSE LET i == CHOOSE x \in S : TRUE
         IN  _normalize_cost_to_period(last.before[i].cost,
                 last.before[i].billing_cycle, period).val
             + SumOfNormalized(S \ {i}, period)

RECURSIVE SumOfValues(_, _)
SumOfValues(f, S) ==
    IF S = {} THEN 0
    ELSE LET k == CHOOSE x \in S : TRUE
         IN  f[k] + SumOfValues(f, S \ {k})

\* The active subscriptions counted under the category c.
ActiveIn(c) == {i \in ActiveIds : CategoryKey(last.before[i]) = c}

LacksCategory(sub) == HasBlankCategory(sub) \/ sub.category = "Uncategorized"

\* C22: the result of calculate_cost_per_category has the key
\* "Uncategorized" only if an active subscription lacks a category,
\* whatever categories and budgets have been configured.
C22_UncategorizedOnlyIfUsed ==
    (/\ last.op = "calculate_cost_per_category"
     /\ last.ret = "None"
     /\ "Uncategorized" \in DOMAIN last.costs)
        => \E i \in ActiveIds : LacksCategory(last.before[i])

\* The seed of a subscription's occurrences, and the number of the dates
\* seed, seed + one cycle, ... that lie in [start_date, end_date].
Seed(sub) ==
    IF sub.next_renewal_date # NoDate
    THEN sub.next_renewal_date ELSE sub.start_date

RECURSIVE OccurrencesIn(_, _, _, _)
OccurrencesIn(d, cycle, start_date, end_date) ==
    IF d > end_date THEN 0
    ELSE (IF d >= start_date THEN 1 ELSE 0)
         + OccurrencesIn(AddDelta(d, cycle), cycle, start_date, end_date)

RECURSIVE ClaimedForecast(_)
ClaimedForecast(S) ==
    IF S = {} THEN 0
    ELSE LET i == CHOOSE x \in S : TRUE
         IN  last.before[i].cost
                 * OccurrencesIn(Seed(last.before[i]),
                                 last.before[i].billing_cycle,
                                 last.from, last.to)
             + ClaimedForecast(S \ {i})

\* C23: calculate_spending_forecast(start, end) with start <= end returns
\* the sum, over the active subscriptions with a cycle other than other, of
\* cost times the number of occurrences d with start <= d <= end, the
\* occurrences being the seed date (next_renewal_date, or start_date when
\* that is None) advanced one cycle step at a time; start > end is a
\* reported error; no subscription is modified.
C23_SpendingForecast ==
    last.op = "calculate_spending_forecast"
        => /\ subscriptions = last.before
           /\ IF last.from > last.to
              THEN last.ret = "ValueError"
              ELSE /\ last.ret = "None"
                   /\ last.val = ClaimedForecast(
                          {i \in ActiveIds :
                              last.before[i].billing_cycle # "other"})

\* The scopes that are over budget: the budget is configured (not None,
\* >= 0) and the monthly spending of the scope exceeds it.
OverBudgetScopes ==
    (IF /\ Budget(config).global # NoBudget
        /\ Budget(config).global >= 0
        /\ SumOfNormalized(ActiveIds, "monthly") > Budget(config).global
     THEN {GlobalScope} ELSE {})
    \cup {CategoryScope(c) : c \in
             {k \in DOMAIN Budget(config).categories :
                 /\ Budget(config).categories[k] # NoBudget
                 /\ Budget(config).categories[k] >= 0
                 /\ SumOfNormalized(ActiveIn(k), "monthly")
                        > Budget(config).categories[k]}}

\* C24: check_budget_alerts returns one alert for the global scope exactly
\* when a global budget b >= 0 is configured and the monthly cost exceeds
\* b, and one alert for each category with a configured budget b_c >= 0
\* and a monthly category cost above b_c; no other scope has an alert, so
\* the number of alerts is the number of over-budget scopes.
C24_BudgetAlerts ==
    last.op = "check_budget_alerts"
        => /\ last.ret = "None"
           /\ last.alerts = OverBudgetScopes
           /\ Cardinality(last.alerts) = Cardinality(OverBudgetScopes)
           /\ subscriptions = last.before
           /\ config = last.cfg

\* The global scope and a category over budget, and a category with a
\* budget that its spending does not exceed.
C24_Witness ==
    /\ last.op = "check_budget_alerts"
    /\ GlobalScope \in last.alerts
    /\ Cardinality(last.alerts) = 2
    /\ \E c \in DOMAIN Budget(config).categories :
          /\ Budget(config).categories[c] = 30
          /\ ActiveIn(c) # {}
          /\ CategoryScope(c) \notin last.alerts

\* C25: month stepping clamps to the last valid day of the target month and
\* each step starts from the previous result: for start_date 2024-01-31,
\* cycle monthly, no last_renewal and today 2024-07-15 the calculator
\* returns 2024-07-29 (Jan 31, Feb 29, Mar 29, ..., Jul 29); day 31 is not
\* restored.
C25_CompoundingClamp ==
    (/\ calc.done
     /\ calc.start_date = MkDate(2024, 1, 31)
     /\ calc.cycle = "monthly"
     /\ calc.last_renewal = NoDate
     /\ today = MkDate(2024, 7, 15))
        => /\ ~calc.raised
           /\ calc.result = MkDate(2024, 7, 29)
           /\ calc.result = StepsFrom(MkDate(2024, 1, 31), "monthly", 6)
           /\ AddMonths(MkDate(2024, 1, 31), 1) = MkDate(2024, 2, 29)
           /\ AddMonths(MkDate(2024, 2, 29), 1) = MkDate(2024, 3, 29)
           /\ Day(calc.result) # 31

\* The call of the scenario has returned.
C25_Witness ==
    /\ calc.done
    /\ calc.start_date = MkDate(2024, 1, 31)
    /\ calc.cycle = "monthly"
    /\ calc.last_renewal = NoDate
    /\ today = MkDate(2024, 7, 15)
    /\ calc.result = MkDate(2024, 7, 29)

\* The calls of the first service that read or write its configuration.
ConfigurationCalls ==
    {"load", "add_category", "set_monthly_category_budget", "set_budget",
     "delete_category"}

\* C26: a service constructed when no settings exist starts with exactly
\* the default categories, no global monthly budget and no category
\* budgets, whatever another service of the process has done before; and
\* a call on one service does not change the categories or the budget of
\* another.
C26_DefaultsAndNoAliasing ==
    /\ last.op = "SubscriptionService"
           => /\ OtherCategories(config) = _DEFAULT_CATEGORIES
              /\ OtherBudget(config) = _DEFAULT_BUDGET
    /\ (/\ last.op \in ConfigurationCalls
        /\ last.cfg.other.up
        /\ config.other.up)
           => /\ OtherCategories(config) = OtherCategories(last.cfg)
              /\ OtherBudget(config) = OtherBudget(last.cfg)

\* The events of the returned list, as a set.
ReturnedEvents == {last.events[n] : n \in DOMAIN last.events}

\* C27: get_upcoming_events(days_ahead) returns exactly one renewal event
\* for each active subscription with today <= next_renewal_date <= today +
\* days_ahead and one trial-end event for each trial with today <=
\* trial_end_date <= today + days_ahead, no event for an inactive or
\* cancelled subscription or a date outside the window, and the list is in
\* ascending order of the event dates.
C27_UpcomingEvents ==
    last.op = "get_upcoming_events"
        => LET target_date == AddDays(last.now, last.days)
               InWindow(d) == d # NoDate /\ last.now <= d /\ d <= target_date
           IN  /\ last.ret = "None"
               /\ Len(last.events) = Cardinality(ReturnedEvents)
               /\ \A i \in DOMAIN last.before :
                     /\ [id |-> i, kind |-> "renews",
                         date |-> last.before[i].next_renewal_date]
                            \in ReturnedEvents
                        <=> /\ last.before[i].status = "active"
                            /\ InWindow(last.before[i].next_renewal_date)
                     /\ [id |-> i, kind |-> "trial ends",
                         date |-> last.before[i].trial_end_date]
                            \in ReturnedEvents
                        <=> /\ last.before[i].status = "trial"
                            /\ InWindow(last.before[i].trial_end_date)
               /\ \A e \in ReturnedEvents :
                     /\ e.id \in DOMAIN last.before
                     /\ \/ /\ e.kind = "renews"
                           /\ e.date = last.before[e.id].next_renewal_date
                        \/ /\ e.kind = "trial ends"
                           /\ e.date = last.before[e.id].trial_end_date
                     /\ last.before[e.id].status \notin {"inactive", "cancelled"}
               /\ \A m, n \in DOMAIN last.events :
                     m < n => last.events[m].date <= last.events[n].date
               /\ subscriptions = last.before

\* A renewal and the end of a trial in the window, at different dates.
C27_Witness ==
    /\ last.op = "get_upcoming_events"
    /\ last.days = 30
    /\ Len(last.events) = 2
    /\ last.events[1].kind = "renews"
    /\ last.events[2].kind = "trial ends"
    /\ last.events[1].date < last.events[2].date

\* The field map of the call has the single key trial_end_date.
TrialEndOnly == DOMAIN last.data = {"trial_end_date"}

\* C28: trial round trip through updates.  An update that sets
\* trial_end_date on a stored active subscription with a cycle other than
\* other makes it a trial without a renewal date; an update that sets
\* trial_end_date to None on the subscription so obtained makes it active
\* again with next_renewal_date = calculate_next_renewal_date(start_date,
\* billing_cycle); both updates return True.
C28_TrialRoundTrip ==
    /\ (/\ UpdateOfStored
        /\ TrialEndOnly
        /\ Before.status = "active"
        /\ Before.billing_cycle # "other"
        /\ last.data["trial_end_date"].t # "NoneType"
        /\ Coerce("trial_end_date", last.data["trial_end_date"]).ok)
           => /\ last.ret = "True"
              /\ After = [Before EXCEPT
                             !.status = "trial",
                             !.next_renewal_date = NoDate,
                             !.trial_end_date =
                                 Coerce("trial_end_date",
                                        last.data["trial_end_date"]).val]
    /\ (/\ UpdateOfStored
        /\ TrialEndOnly
        /\ Before.status = "trial"
        /\ Before.trial_end_date # NoDate
        /\ Before.next_renewal_date = NoDate
        /\ Before.billing_cycle # "other"
        /\ last.data["trial_end_date"] = PyNone)
           => /\ last.ret = "True"
              /\ After = [Before EXCEPT
                             !.status = "active",
                             !.trial_end_date = NoDate,
                             !.next_renewal_date =
                                 calculate_next_renewal_date(
                                     Before.start_date, Before.billing_cycle,
                                     NoDate, last.now).date]
              /\ After.next_renewal_date # NoDate

\* The second update of the round trip: the trial that the first update
\* made is active again and has its renewal date.
C28_Witness ==
    /\ UpdateOfStored
    /\ TrialEndOnly
    /\ last.data["trial_end_date"] = PyNone
    /\ Before = [After EXCEPT !.status = "trial",
                              !.next_renewal_date = NoDate,
                              !.trial_end_date = MkDate(2024, 8, 1)]
    /\ After.status = "active"
    /\ After.billing_cycle = "yearly"
    /\ After.next_renewal_date = AddYears(After.start_date, 1)

\* The fields update_subscription treats as descriptive: none of them is
\* start_date, billing_cycle, status, trial_end_date or next_renewal_date.
DescriptiveFields == {"name", "cost", "category"}

\* C29: an update_subscription call on a stored id whose field map names
\* only fields other than start_date, billing_cycle, status, trial_end_date
\* and next_renewal_date leaves next_renewal_date, start_date,
\* billing_cycle, status, trial_end_date and id of that subscription as
\* they were, and leaves every other stored subscription as it was.
C29_DescriptiveUpdateFrame ==
    (UpdateOfStored /\ DOMAIN last.data \subseteq DescriptiveFields)
        => /\ DOMAIN subscriptions = DOMAIN last.before
           /\ \A f \in {"next_renewal_date", "start_date", "billing_cycle",
                        "status", "trial_end_date", "id"} :
                 After[f] = Before[f]
           /\ \A i \in DOMAIN last.before \ {last.id} :
                 subscriptions[i] = last.before[i]

\* C30: a restart on a fixed day is idempotent.  When a new service
\* instance loads the file the previous instance has saved from its dict,
\* in which every subscription that is billed (not a trial, not of the
\* cycle other) has a renewal date that is not before today, every
\* subscription has the field values it had: no load moves a renewal date
\* further into the future.
C30_RestartIdempotent ==
    (/\ last.op = "load"
     /\ last.ret = "None"
     /\ last.file = _save_subscriptions(last.before)
     /\ \A i \in DOMAIN last.before :
           \/ last.before[i].status = "trial"
           \/ last.before[i].billing_cycle = "other"
           \/ last.before[i].next_renewal_date >= last.now)
        => subscriptions = last.before

====
